---- MODULE Spec2Model ----
(***************************************************************************)
(* MLS-MPM particle simulation (mlsmpm-particles-rs): the background grid, *)
(* the particle store, the world/time state and the per-frame pipeline of  *)
(* systems, as a state machine.                                            *)
(*                                                                         *)
(* Numbers.  An f32 is modelled as a fixed-point number: the integer n     *)
(* stands for n / ONE.  Every arithmetic operation rounds its exact result *)
(* to the nearest multiple of 1 / ONE (as f32 rounds to its mantissa) and  *)
(* a result beyond FMAX overflows to an infinity (as f32 does beyond       *)
(* f32::MAX).  NaN and the two infinities are three values outside the     *)
(* finite range, with the IEEE rules for them.  The sign of zero is not    *)
(* modelled.                                                               *)
(*                                                                         *)
(* Machine words.  A usize is modelled by its signed residue: a negative   *)
(* integer n stands for the word 2^64 + n.  All magnitudes in the model    *)
(* are far below 2^63, so sums and products of residues are the residues   *)
(* of the wrapped sums and products.                                       *)
(***************************************************************************)
EXTENDS Integers, Sequences, FiniteSets, TLC

\* ------------------------------------------------------------- bounds
\* width of the grid (DEFAULT_GRID_WIDTH is 2^8, the tests use 10)
GridWidth == 9
\* particles that are spawned in one run
MaxParticles == 2
\* ticks of one run
MaxTick == 5


\* ------------------------------------------------------------- f32
ONE == 2 ^ 10
FMAX == ONE * ONE - 1
PINF == FMAX + 1
NINF == 0 - PINF
NAN == FMAX + 2

HALF == ONE \div 2
THREE_QUARTERS == (3 * ONE) \div 4

IsNaN(a) == a = NAN
IsInf(a) == a = PINF \/ a = NINF
IsFinite(a) == a >= 0 - FMAX /\ a <= FMAX

Abs(n) == IF n < 0 THEN 0 - n ELSE n
Sgn(n) == IF n < 0 THEN 0 - 1 ELSE IF n > 0 THEN 1 ELSE 0

\* an exact result that left the finite range becomes an infinity
Sat(n) == IF n > FMAX THEN PINF ELSE IF n < 0 - FMAX THEN NINF ELSE n

\* n / d rounded to the nearest integer, for n >= 0 and d > 0
RoundDiv(n, d) == LET q == n \div d
                      r == n % d
                  IN  IF 2 * r >= d THEN q + 1 ELSE q

\* the integer k as an f32
F(k) == Sat(k * ONE)

FNeg(a) == IF IsNaN(a) THEN NAN ELSE 0 - a

FAdd(a, b) ==
    IF IsNaN(a) \/ IsNaN(b) THEN NAN
    ELSE IF IsInf(a) /\ IsInf(b) THEN (IF a = b THEN a ELSE NAN)
    ELSE IF IsInf(a) THEN a
    ELSE IF IsInf(b) THEN b
    ELSE Sat(a + b)

FSub(a, b) == FAdd(a, FNeg(b))

FMul(a, b) ==
    IF IsNaN(a) \/ IsNaN(b) THEN NAN
    ELSE IF IsInf(a) \/ IsInf(b)
         THEN (IF a = 0 \/ b = 0 THEN NAN
               ELSE IF Sgn(a) * Sgn(b) > 0 THEN PINF ELSE NINF)
    ELSE LET x == Abs(a)
             y == Abs(b)
             m == (x \div ONE) * y + RoundDiv((x % ONE) * y, ONE)
         IN  Sat(Sgn(a) * Sgn(b) * m)

FDiv(a, b) ==
    IF IsNaN(a) \/ IsNaN(b) THEN NAN
    ELSE IF IsInf(a)
         THEN (IF IsInf(b) THEN NAN
               ELSE IF Sgn(a) * (IF b < 0 THEN 0 - 1 ELSE 1) > 0 THEN PINF ELSE NINF)
    ELSE IF IsInf(b) THEN 0
    ELSE IF b = 0
         THEN (IF a = 0 THEN NAN ELSE IF a > 0 THEN PINF ELSE NINF)
    ELSE Sat(Sgn(a) * Sgn(b) * RoundDiv(Abs(a) * ONE, Abs(b)))

\* f32 comparisons: every comparison with NaN is false
FLt(a, b) == ~IsNaN(a) /\ ~IsNaN(b) /\ a < b
FGt(a, b) == FLt(b, a)
FLe(a, b) == ~IsNaN(a) /\ ~IsNaN(b) /\ a <= b
FGe(a, b) == FLe(b, a)

\* f32::max and f32::min return the other operand when one is NaN
FMax(a, b) == IF IsNaN(a) THEN b ELSE IF IsNaN(b) THEN a ELSE IF a > b THEN a ELSE b
FMin(a, b) == IF IsNaN(a) THEN b ELSE IF IsNaN(b) THEN a ELSE IF a < b THEN a ELSE b

\* f32::powi(x, 2)
Powi2(a) == FMul(a, a)

\* f32::powf(x, p) for an exponent p that is a whole number >= 0
RECURSIVE PowfN(_, _)
PowfN(a, k) == IF k = 0 THEN ONE ELSE FMul(a, PowfN(a, k - 1))
Powf(a, p) == PowfN(a, p \div ONE)

\* the fractional bits of log2(y / ONE) for ONE <= y < 2 * ONE, one bit per
\* squaring, from the bit worth `bit` / ONE down to the last one
RECURSIVE Log2Frac(_, _)
Log2Frac(y, bit) ==
    IF bit = 0 THEN 0
    ELSE LET s == (y * y) \div ONE
         IN  IF s >= 2 * ONE
             THEN bit + Log2Frac(s \div 2, bit \div 2)
             ELSE Log2Frac(s, bit \div 2)

\* log2 of a finite a > 0: the exponent, then the fractional bits
RECURSIVE Log2Pos(_, _)
Log2Pos(a, e) ==
    IF a >= 2 * ONE THEN Log2Pos(a \div 2, e + 1)
    ELSE IF a < ONE THEN Log2Pos(a * 2, e - 1)
    ELSE e * ONE + Log2Frac(a, HALF)

Log2(a) ==
    IF IsNaN(a) \/ a < 0 THEN NAN
    ELSE IF a = 0 THEN NINF
    ELSE IF a = PINF THEN PINF
    ELSE Log2Pos(a, 0)

\* log10(2) and ln(2), to the model's precision
LOG10_2 == (30103 * ONE) \div 100000
LN_2 == (69315 * ONE) \div 100000

\* f32::log10 and f32::ln
Log10(a) == FMul(Log2(a), LOG10_2)
Ln(a) == FMul(Log2(a), LN_2)

\* ------------------------------------------------------------- Vec2, Mat2
\* a Vec2 is <<x, y>>; a Mat2 is <<x_axis, y_axis>>, its two columns
VZERO == <<0, 0>>
MZERO == <<VZERO, VZERO>>
MIDENTITY == <<(<<ONE, 0>>), (<<0, ONE>>)>>

VAdd(u, v) == <<FAdd(u[1], v[1]), FAdd(u[2], v[2])>>
VSub(u, v) == <<FSub(u[1], v[1]), FSub(u[2], v[2])>>
VScale(u, s) == <<FMul(u[1], s), FMul(u[2], s)>>

\* a difference of matrices that adds the second one
MSub_adding(m, n) == <<VAdd(m[1], n[1]), VAdd(m[2], n[2])>>

Mat2_from_cols(x_axis, y_axis) == <<x_axis, y_axis>>
MAdd(m, n) == <<VAdd(m[1], n[1]), VAdd(m[2], n[2])>>
MSub(m, n) == <<VSub(m[1], n[1]), VSub(m[2], n[2])>>
MScale(m, s) == <<VScale(m[1], s), VScale(m[2], s)>>
\* Mat2 * Vec2 = x_axis * v.x + y_axis * v.y
mul_vec2(m, v) == VAdd(VScale(m[1], v[1]), VScale(m[2], v[2]))
\* Mat2 * Mat2, column by column
mul_mat2(m, n) == <<mul_vec2(m, n[1]), mul_vec2(m, n[2])>>
transpose(m) == <<(<<m[1][1], m[2][1]>>), (<<m[1][2], m[2][2]>>)>>
determinant(m) == FSub(FMul(m[1][1], m[2][2]), FMul(m[1][2], m[2][1]))
\* glam's Mat2::inverse: the adjugate times 1 / det, with no test of det
inverse(m) ==
    LET inv_det == FDiv(ONE, determinant(m))
    IN  <<(<<FMul(m[2][2], inv_det), FMul(m[1][2], FNeg(inv_det))>>),
          (<<FMul(m[2][1], FNeg(inv_det)), FMul(m[1][1], inv_det)>>)>>

VFinite(v) == IsFinite(v[1]) /\ IsFinite(v[2])

Range(f) == {f[i] : i \in DOMAIN f}

\* ------------------------------------------------------------- casts, words
Builds == {"debug", "release"}

\* `x as u32` of an f32 saturates: NaN and negatives give 0, values beyond
\* u32::MAX give u32::MAX (the residue -1), the rest truncate
f32_as_u32(a) ==
    IF IsNaN(a) \/ a <= 0 THEN 0
    ELSE IF a = PINF THEN 0 - 1
    ELSE a \div ONE

\* `c as f32` of an unsigned word: a residue below 0 is a word near 2^32 or
\* 2^64, beyond the finite range of the model
uint_as_f32(c) == IF c < 0 THEN PINF ELSE F(c)

\* `c as f32` of an i32
i32_as_f32(c) == IF c < 0 THEN FNeg(F(0 - c)) ELSE F(c)

\* `c as usize` of an i32 sign-extends: the residue is kept
i32_as_usize(c) == c

\* a * b or a + b of two usize leaves the 64-bit range
usize_mul_overflows(a, b) == a < 0 /\ b >= 2
usize_add_overflows(a, b) ==
    \/ a < 0 /\ b < 0
    \/ a < 0 /\ b >= 0 /\ a + b >= 0
    \/ a >= 0 /\ b < 0 /\ a + b >= 0

\* ------------------------------------------------------------- Grid
ZeroCell == [velocity |-> VZERO, mass |-> 0]

Grid_new(width) ==
    [cells |-> [i \in 0 .. (width * width - 1) |-> ZeroCell], width |-> width]

NumCells(grid) == Cardinality(DOMAIN grid.cells)

\* x * self.width + y: wraps in a release build, panics on overflow in a
\* debug build
index_at(grid, x, y) == x * grid.width + y
index_at_panics(build, grid, x, y) ==
    /\ build = "debug"
    /\ \/ usize_mul_overflows(x, grid.width)
       \/ usize_add_overflows(x * grid.width, y)

\* grid.cells[i] is bounds-checked in every build
InBounds(grid, i) == i \in DOMAIN grid.cells

\* a reset that clears the mass and forgets the velocity
Grid_reset_mass_only(grid) ==
    [grid EXCEPT !.cells = [i \in DOMAIN grid.cells |->
                               [grid.cells[i] EXCEPT !.mass = 0]]]

Grid_reset(grid) == [grid EXCEPT !.cells = [i \in DOMAIN grid.cells |-> ZeroCell]]

\* self.width - 3 as a usize: below 0 it is a word near 2^64
width_minus_3(grid) == grid.width - 3
GtUsize(a, b) == IF b < 0 THEN FALSE ELSE a > b

\* a wall rule that covers only the outermost column and row of each edge
Grid_update_cell_one_wall_column(grid, i, dt, gravity) ==
    LET cell == grid.cells[i]
        inv == FDiv(ONE, cell.mass)
        vx0 == FMul(cell.velocity[1], inv)
        vy0 == FAdd(FMul(cell.velocity[2], inv), FMul(dt, gravity))
        x == i \div grid.width
        y == i % grid.width
        vx1 == IF x < 1 /\ FLt(vx0, 0) THEN 0 ELSE vx0
        vx2 == IF x > grid.width - 2 /\ FGt(vx1, 0) THEN 0 ELSE vx1
        vy1 == IF y < 1 /\ FLt(vy0, 0) THEN 0 ELSE vy0
        vy2 == IF y > grid.width - 2 /\ FGt(vy1, 0) THEN 0 ELSE vy1
    IN  IF FGt(cell.mass, 0)
        THEN [velocity |-> <<vx2, vy2>>, mass |-> cell.mass]
        ELSE cell

\* an update that also sets the mass of a cell with mass to 1
Grid_update_cell_unit_mass(grid, i, dt, gravity) ==
    LET cell == grid.cells[i]
        inv == FDiv(ONE, cell.mass)
        vx0 == FMul(cell.velocity[1], inv)
        vy0 == FAdd(FMul(cell.velocity[2], inv), FMul(dt, gravity))
        x == i \div grid.width
        y == i % grid.width
        vx1 == IF x < 2 /\ FLt(vx0, 0) THEN 0 ELSE vx0
        vx2 == IF GtUsize(x, width_minus_3(grid)) /\ FGt(vx1, 0) THEN 0 ELSE vx1
        vy1 == IF y < 2 /\ FLt(vy0, 0) THEN 0 ELSE vy0
        vy2 == IF GtUsize(y, width_minus_3(grid)) /\ FGt(vy1, 0) THEN 0 ELSE vy1
    IN  IF FGt(cell.mass, 0)
        THEN [velocity |-> <<vx2, vy2>>, mass |-> ONE]
        ELSE cell

\* an update that does not look at the mass before dividing by it
Grid_update_cell_any_mass(grid, i, dt, gravity) ==
    LET cell == grid.cells[i]
        inv == FDiv(ONE, cell.mass)
        vx0 == FMul(cell.velocity[1], inv)
        vy0 == FAdd(FMul(cell.velocity[2], inv), FMul(dt, gravity))
        x == i \div grid.width
        y == i % grid.width
        vx1 == IF x < 2 /\ FLt(vx0, 0) THEN 0 ELSE vx0
        vx2 == IF GtUsize(x, width_minus_3(grid)) /\ FGt(vx1, 0) THEN 0 ELSE vx1
        vy1 == IF y < 2 /\ FLt(vy0, 0) THEN 0 ELSE vy0
        vy2 == IF GtUsize(y, width_minus_3(grid)) /\ FGt(vy1, 0) THEN 0 ELSE vy1
    IN  [velocity |-> <<vx2, vy2>>, mass |-> cell.mass]

Grid_update_cell(grid, i, dt, gravity) ==
    LET cell == grid.cells[i]
        inv == FDiv(ONE, cell.mass)
        vx0 == FMul(cell.velocity[1], inv)
        vy0 == FAdd(FMul(cell.velocity[2], inv), FMul(dt, gravity))
        x == i \div grid.width
        y == i % grid.width
        vx1 == IF x < 2 /\ FLt(vx0, 0) THEN 0 ELSE vx0
        vx2 == IF GtUsize(x, width_minus_3(grid)) /\ FGt(vx1, 0) THEN 0 ELSE vx1
        vy1 == IF y < 2 /\ FLt(vy0, 0) THEN 0 ELSE vy0
        vy2 == IF GtUsize(y, width_minus_3(grid)) /\ FGt(vy1, 0) THEN 0 ELSE vy1
    IN  IF FGt(cell.mass, 0)
        THEN [velocity |-> <<vx2, vy2>>, mass |-> cell.mass]
        ELSE cell

\* self.width - 3 underflows for a cell with mass: a debug build panics
Grid_update_panics(b, grid) ==
    /\ b = "debug"
    /\ grid.width < 3
    /\ \E i \in DOMAIN grid.cells : FGt(grid.cells[i].mass, 0)

Grid_update(grid, dt, gravity) ==
    [grid EXCEPT !.cells =
        [i \in DOMAIN grid.cells |-> Grid_update_cell(grid, i, dt, gravity)]]

\* weights whose middle term is 0.5 - d^2: they sum to 0.75 on each axis
weights_losing_mass(cell_diff) ==
    << <<FMul(HALF, Powi2(FSub(HALF, cell_diff[1]))),
         FMul(HALF, Powi2(FSub(HALF, cell_diff[2])))>>,
       <<FSub(HALF, Powi2(cell_diff[1])),
         FSub(HALF, Powi2(cell_diff[2]))>>,
       <<FMul(HALF, Powi2(FAdd(HALF, cell_diff[1]))),
         FMul(HALF, Powi2(FAdd(HALF, cell_diff[2])))>> >>

\* weights whose third term repeats the first: 0.5 * (0.5 - d)^2 twice
weights_repeating_first(cell_diff) ==
    << <<FMul(HALF, Powi2(FSub(HALF, cell_diff[1]))),
         FMul(HALF, Powi2(FSub(HALF, cell_diff[2])))>>,
       <<FSub(THREE_QUARTERS, Powi2(cell_diff[1])),
         FSub(THREE_QUARTERS, Powi2(cell_diff[2]))>>,
       <<FMul(HALF, Powi2(FSub(HALF, cell_diff[1]))),
         FMul(HALF, Powi2(FSub(HALF, cell_diff[2])))>> >>

quadratic_interpolation_weights(cell_diff) ==
    << <<FMul(HALF, Powi2(FSub(HALF, cell_diff[1]))),
         FMul(HALF, Powi2(FSub(HALF, cell_diff[2])))>>,
       <<FSub(THREE_QUARTERS, Powi2(cell_diff[1])),
         FSub(THREE_QUARTERS, Powi2(cell_diff[2]))>>,
       <<FMul(HALF, Powi2(FAdd(HALF, cell_diff[1]))),
         FMul(HALF, Powi2(FAdd(HALF, cell_diff[2])))>> >>

\* the term with rows and columns exchanged
term_transposed(weighted_velocity, cell_dist) ==
    Mat2_from_cols(
        <<FMul(weighted_velocity[1], cell_dist[1]),
          FMul(weighted_velocity[1], cell_dist[2])>>,
        <<FMul(weighted_velocity[2], cell_dist[1]),
          FMul(weighted_velocity[2], cell_dist[2])>>)

weighted_velocity_and_cell_dist_to_term(weighted_velocity, cell_dist) ==
    Mat2_from_cols(
        <<FMul(weighted_velocity[1], cell_dist[1]),
          FMul(weighted_velocity[2], cell_dist[1])>>,
        <<FMul(weighted_velocity[1], cell_dist[2]),
          FMul(weighted_velocity[2], cell_dist[2])>>)

\* ------------------------------------------------------------- the stencil
Slots == 0 .. 8
SlotGx(s) == s % 3
SlotGy(s) == s \div 3

\* cell_x, cell_y: position as u32
BaseCell(position) == <<f32_as_u32(position[1]), f32_as_u32(position[2])>>

CellDiff(position) ==
    LET cell == BaseCell(position)
    IN  <<FSub(FSub(position[1], uint_as_f32(cell[1])), HALF),
          FSub(FSub(position[2], uint_as_f32(cell[2])), HALF)>>

\* weights[gx].x * weights[gy].y
SlotWeight(weights, s) == FMul(weights[SlotGx(s) + 1][1], weights[SlotGy(s) + 1][2])

\* cell_pos_x, cell_pos_y as i32
CellPos(position, s) ==
    LET cell == BaseCell(position)
    IN  <<(cell[1] + SlotGx(s)) - 1, (cell[2] + SlotGy(s)) - 1>>

CellDist(position, s) ==
    LET cp == CellPos(position, s)
    IN  <<FAdd(FSub(i32_as_f32(cp[1]), position[1]), HALF),
          FAdd(FSub(i32_as_f32(cp[2]), position[2]), HALF)>>

CellAtIndex(grid, position, s) ==
    LET cp == CellPos(position, s)
    IN  index_at(grid, i32_as_usize(cp[1]), i32_as_usize(cp[2]))

\* some index_at of the 9 calls of a closure panics
StencilPanics(build, grid, position) ==
    \E s \in Slots :
        LET cp == CellPos(position, s)
        IN  index_at_panics(build, grid, i32_as_usize(cp[1]), i32_as_usize(cp[2]))

\* some grid.cells[cell_at_index] of a closure that reads the grid panics
StencilOutOfBounds(grid, position) ==
    \E s \in Slots : ~InBounds(grid, CellAtIndex(grid, position, s))

\* ------------------------------------------------------------- particles
\* GridMassAndMomentumChange(cell index, mass delta, momentum delta)
GridMassAndMomentumChange(i, m, v) == <<i, m, v>>

\* CellMassMomentumContributions of a new particle
NewContributions == [s \in Slots |-> GridMassAndMomentumChange(0, 0, VZERO)]

FOUR == F(4)

\* a mass scatter whose stencil is stretched: the columns of the 9 cells are
\* two cells apart
update_cells_particle_stretched(grid, p) ==
    LET weights == quadratic_interpolation_weights(CellDiff(p.position))
    IN  [s \in Slots |->
            LET weight == SlotWeight(weights, s)
                q == mul_vec2(p.affine_momentum, CellDist(p.position, s))
                mass_contrib == FMul(weight, p.mass)
                cp == CellPos(p.position, s)
            IN  GridMassAndMomentumChange(
                    index_at(grid, i32_as_usize(cp[1] + SlotGx(s) - 1),
                             i32_as_usize(cp[2])),
                    mass_contrib,
                    VScale(VAdd(p.velocity, q), mass_contrib))]

\* a mass scatter that adds the cell offset to the velocity whatever the
\* affine matrix is
update_cells_particle_with_offset(grid, p) ==
    LET weights == quadratic_interpolation_weights(CellDiff(p.position))
    IN  [s \in Slots |->
            LET weight == SlotWeight(weights, s)
                q == VAdd(mul_vec2(p.affine_momentum, CellDist(p.position, s)),
                          CellDist(p.position, s))
                mass_contrib == FMul(weight, p.mass)
            IN  GridMassAndMomentumChange(
                    CellAtIndex(grid, p.position, s),
                    mass_contrib,
                    VScale(VAdd(p.velocity, q), mass_contrib))]

\* the closure of update_cells for one particle: its 9 contributions
update_cells_particle(grid, p) ==
    LET weights == quadratic_interpolation_weights(CellDiff(p.position))
    IN  [s \in Slots |->
            LET weight == SlotWeight(weights, s)
                q == mul_vec2(p.affine_momentum, CellDist(p.position, s))
                mass_contrib == FMul(weight, p.mass)
            IN  GridMassAndMomentumChange(
                    CellAtIndex(grid, p.position, s),
                    mass_contrib,
                    VScale(VAdd(p.velocity, q), mass_contrib))]

\* the order in which `for gx in 0..3 { for gy in 0..3 {` visits the slots
\* gx + 3 * gy
LoopOrder == <<0, 3, 6, 1, 4, 7, 2, 5, 8>>

\* density += grid.cells[cell_at_index].mass * weight, over the 9 cells
RECURSIVE DensitySum(_, _, _, _, _)
DensitySum(grid, position, weights, k, density) ==
    IF k > 9 THEN density
    ELSE LET s == LoopOrder[k]
         IN  DensitySum(grid, position, weights, k + 1,
                 FAdd(density,
                      FMul(grid.cells[CellAtIndex(grid, position, s)].mass,
                           SlotWeight(weights, s))))

Density(grid, position) ==
    DensitySum(grid, position,
               quadratic_interpolation_weights(CellDiff(position)), 1, 0)

\* eq_16_term_0 of the Neo-Hookean solid
solid_eq_16_term_0(grid, world, p) ==
    LET pp == p.solid
        density == Density(grid, p.position)
        volume == FDiv(p.mass, density)
        j == determinant(pp.deformation_gradient)
        volume_scaled == FMul(volume, j)
        f_t == transpose(pp.deformation_gradient)
        f_inv_t == inverse(f_t)
        f_minus_f_inv_t == MSub(pp.deformation_gradient, f_inv_t)
        p_term_0 == MScale(f_minus_f_inv_t, pp.elastic_mu)
        p_term_1 == MScale(f_inv_t, FMul(Log10(j), pp.elastic_lambda))
        p_combined == MAdd(p_term_0, p_term_1)
        stress == MScale(mul_mat2(p_combined, f_t), FDiv(ONE, j))
    IN  MScale(stress, FMul(FMul(FNeg(volume_scaled), FOUR), world.dt))

\* eq_16_term_0 of the Newtonian fluid
fluid_eq_16_term_0(grid, world, p) ==
    LET pp == p.fluid
        density == Density(grid, p.position)
        volume == FDiv(p.mass, density)
        pressure == FMax(FNeg(ONE \div 10),
                         FMul(pp.eos_stiffness,
                              FSub(Powf(FDiv(density, pp.rest_density), pp.eos_power),
                                   ONE)))
        trace == FAdd(p.affine_momentum[2][1], p.affine_momentum[1][2])
        strain == <<(<<p.affine_momentum[1][1], trace>>),
                    (<<trace, p.affine_momentum[2][2]>>)>>
        viscosity_term == MScale(strain, pp.dynamic_viscosity)
        stress == MAdd(<<(<<FNeg(pressure), 0>>), (<<0, FNeg(pressure)>>)>>,
                       viscosity_term)
    IN  MScale(stress, FMul(FMul(FNeg(volume), FOUR), world.dt))

\* a force scatter of the solids that forgets the weight of the cell
particles_to_grid_solids_unweighted(grid, world, p) ==
    LET eq_16_term_0 == solid_eq_16_term_0(grid, world, p)
    IN  [s \in Slots |->
            GridMassAndMomentumChange(
                CellAtIndex(grid, p.position, s),
                0,
                mul_vec2(eq_16_term_0, CellDist(p.position, s)))]

\* the closure of particles_to_grid_solids for one particle
particles_to_grid_solids_particle(grid, world, p) ==
    LET weights == quadratic_interpolation_weights(CellDiff(p.position))
        eq_16_term_0 == solid_eq_16_term_0(grid, world, p)
    IN  [s \in Slots |->
            GridMassAndMomentumChange(
                CellAtIndex(grid, p.position, s),
                0,
                mul_vec2(MScale(eq_16_term_0, SlotWeight(weights, s)),
                         CellDist(p.position, s)))]

\* a force scatter of the fluids that leaves the scratch buffer as it was
particles_to_grid_fluids_buffer_kept(grid, world, p) == p.mmc

\* the closure of particles_to_grid_fluids for one particle
particles_to_grid_fluids_particle(grid, world, p) ==
    LET weights == quadratic_interpolation_weights(CellDiff(p.position))
        eq_16_term_0 == fluid_eq_16_term_0(grid, world, p)
    IN  [s \in Slots |->
            GridMassAndMomentumChange(
                CellAtIndex(grid, p.position, s),
                0,
                mul_vec2(MScale(eq_16_term_0, SlotWeight(weights, s)),
                         CellDist(p.position, s)))]

\* the 9 changes of every particle, in query order, slot 0 first
RECURSIVE AllChanges(_, _)
AllChanges(ps, k) ==
    IF k > Len(ps) THEN <<>>
    ELSE [s \in 1 .. 9 |-> ps[k].mmc[s - 1]] \o AllChanges(ps, k + 1)

\* grid.cells[change.0].mass += change.1 (with_mass);
\* grid.cells[change.0].velocity += change.2, change after change
RECURSIVE ApplyChanges(_, _, _, _)
ApplyChanges(cells, changes, k, with_mass) ==
    IF k > Len(changes) THEN cells
    ELSE LET c == changes[k]
             old == cells[c[1]]
             new == [velocity |-> VAdd(old.velocity, c[3]),
                     mass |-> IF with_mass THEN FAdd(old.mass, c[2]) ELSE old.mass]
         IN  ApplyChanges([cells EXCEPT ![c[1]] = new], changes, k + 1, with_mass)

\* some grid.cells[change.0] is out of bounds: the system panics
ChangesOutOfBounds(grid, ps) ==
    \E k \in 1 .. Len(ps) : \E s \in Slots : ~InBounds(grid, ps[k].mmc[s][1])

\* an apply step that adds nothing to the grid
apply_nothing(grid, ps) == grid

apply_update_cell_computations(grid, ps) ==
    [grid EXCEPT !.cells = ApplyChanges(grid.cells, AllChanges(ps, 1), 1, TRUE)]

\* the first loop of update_grid
apply_force_computations(grid, ps) ==
    [grid EXCEPT !.cells = ApplyChanges(grid.cells, AllChanges(ps, 1), 1, FALSE)]

WorldState_new(dt, gravity, gravity_enabled) ==
    [dt |-> dt, gravity |-> gravity, gravity_enabled |-> gravity_enabled,
     current_tick |-> 0]

\* an update that counts a tick twice
WorldState_update_twice(world) ==
    [world EXCEPT !.current_tick = world.current_tick + 2]

WorldState_update(world) == [world EXCEPT !.current_tick = world.current_tick + 1]

toggle_gravity(world) == [world EXCEPT !.gravity_enabled = ~world.gravity_enabled]

\* gravity handed to Grid::update whether it is enabled or not
GravityAlways(world) == world.gravity

\* the gravity update_grid hands to Grid::update
EffectiveGravity(world) == IF world.gravity_enabled THEN world.gravity ELSE 0

\* the accumulation of the gather over the 9 cells: <<velocity, b>>
RECURSIVE GatherSum(_, _, _, _, _)
GatherSum(grid, position, weights, k, acc) ==
    IF k > 9 THEN acc
    ELSE LET s == LoopOrder[k]
             weighted_velocity ==
                 VScale(grid.cells[CellAtIndex(grid, position, s)].velocity,
                        SlotWeight(weights, s))
             term == weighted_velocity_and_cell_dist_to_term(
                         weighted_velocity, CellDist(position, s))
         IN  GatherSum(grid, position, weights, k + 1,
                 <<VAdd(acc[1], weighted_velocity), MAdd(acc[2], term)>>)

\* no safety clamp: the advected coordinate is kept as it is
NoClamp(grid, a) == a

\* (grid.width - 2) as f32
width_minus_2_as_f32(grid) == uint_as_f32(grid.width - 2)

\* grid.width - 2 underflows: a debug build panics
width_minus_2_panics(b, grid) == b = "debug" /\ grid.width < 2

\* a clamp to the whole grid, [0, width - 1], instead of [1, width - 2]
ClampToGrid(grid, a) == FMin(FMax(a, 0), uint_as_f32(grid.width - 1))

ClampToDomain(grid, a) == FMin(FMax(a, ONE), width_minus_2_as_f32(grid))

\* a gather that does not reset the velocity before it accumulates
grid_to_particles_keeping_velocity(grid, world, p) ==
    LET weights == quadratic_interpolation_weights(CellDiff(p.position))
        sum == GatherSum(grid, p.position, weights, 1, <<p.velocity, MZERO>>)
        velocity == sum[1]
        advected == VAdd(p.position, VScale(velocity, world.dt))
    IN  [p EXCEPT !.velocity = velocity,
                  !.affine_momentum = MScale(sum[2], FOUR),
                  !.position = <<ClampToDomain(grid, advected[1]),
                                 ClampToDomain(grid, advected[2])>>]

\* the closure of grid_to_particles for one particle
grid_to_particles_particle(grid, world, p) ==
    LET weights == quadratic_interpolation_weights(CellDiff(p.position))
        sum == GatherSum(grid, p.position, weights, 1, <<VZERO, MZERO>>)
        velocity == sum[1]
        advected == VAdd(p.position, VScale(velocity, world.dt))
    IN  [p EXCEPT !.velocity = velocity,
                  !.affine_momentum = MScale(sum[2], FOUR),
                  !.position = <<ClampToDomain(grid, advected[1]),
                                 ClampToDomain(grid, advected[2])>>]

\* a deformation update with the factor on the right: F * (I + dt * C)
update_deformation_gradients_on_the_right(world, p) ==
    [p EXCEPT !.solid.deformation_gradient =
        mul_mat2(p.solid.deformation_gradient,
                 MAdd(MIDENTITY, MScale(p.affine_momentum, world.dt)))]

\* the closure of update_deformation_gradients for one solid particle
update_deformation_gradients_particle(world, p) ==
    [p EXCEPT !.solid.deformation_gradient =
        mul_mat2(MAdd(MIDENTITY, MScale(p.affine_momentum, world.dt)),
                 p.solid.deformation_gradient)]

\* an expiry test that already fires at created_at + max_age
IsOldAtLimit(world, p) == world.current_tick >= p.created_at + p.max_age

\* the test of delete_old_entities
IsOld(world, p) == world.current_tick > p.created_at + p.max_age

\* ------------------------------------------------------------- spawning
water_properties ==
    [rest_density |-> F(4), dynamic_viscosity |-> ONE \div 10,
     eos_stiffness |-> F(100), eos_power |-> F(4)]

\* Default::default() of the deformation gradient is the identity; the moduli
\* of wood_properties are scaled by 1 / 1000 into the finite range of the model
wood_properties ==
    [deformation_gradient |-> MIDENTITY, elastic_lambda |-> F(18),
     elastic_mu |-> F(6)]

LIQUID_PARTICLE_MASS == ONE
STEEL_PARTICLE_MASS == (3 * ONE) \div 2

TEST_DT == ONE \div 10
TEST_GRAVITY == 0 - ((3 * ONE) \div 10)

\* ConstitutiveModel::new_particle of the two models
new_particle(id, kind, at, mass, created_at, vel, max_age) ==
    [id |-> id,
     position |-> at,
     has_fluid |-> kind = "fluid",
     fluid |-> water_properties,
     has_solid |-> kind = "solid",
     solid |-> wood_properties,
     mass |-> mass,
     velocity |-> vel,
     max_age |-> max_age,
     affine_momentum |-> MZERO,
     created_at |-> created_at,
     mmc |-> NewContributions]

\* grid_width - 4 underflows: a debug build panics, a release build wraps
SpawnPanics(b, grid_width) == b = "debug" /\ grid_width < 4

\* spawn_particle returns without spawning unless the position is strictly
\* inside (3, grid_width - 4) on both axes
SpawnAllowed(grid_width, at) ==
    LET min == F(3)
        max == uint_as_f32(grid_width - 4)
    IN  /\ ~(FLe(at[1], min) \/ FGe(at[1], max))
        /\ ~(FLe(at[2], min) \/ FGe(at[2], max))

\* what the spawners of a run ask for: kind, position, velocity, mass and
\* duration of one particle
SpawnChoices ==
    { [kind |-> "fluid", at |-> <<F(4) + HALF, F(4) + HALF>>,
       vel |-> <<0, FNeg(F(40))>>, mass |-> LIQUID_PARTICLE_MASS, duration |-> 1],
      [kind |-> "fluid", at |-> <<F(4), F(4) + HALF>>,
       vel |-> VZERO, mass |-> LIQUID_PARTICLE_MASS, duration |-> 2],
      [kind |-> "solid", at |-> <<F(3) + HALF, F(4) + (ONE \div 4)>>,
       vel |-> <<FNeg(FDiv(F(2), TEST_DT)), 0>>, mass |-> STEEL_PARTICLE_MASS,
       duration |-> 3],
      [kind |-> "solid", at |-> <<F(4) + (ONE \div 4), F(4)>>,
       vel |-> VZERO, mass |-> STEEL_PARTICLE_MASS, duration |-> 0],
      [kind |-> "solid", at |-> <<F(3), F(4)>>,
       vel |-> VZERO, mass |-> STEEL_PARTICLE_MASS, duration |-> 2] }

\* ------------------------------------------------------------- scenes
\* a ParticleSpawnerInfo with the material model of its bundle ("none" for a
\* bundle without a model component) and the particle its pattern yields
ParticleSpawnerInfo(created_at, spawn_frequency, max_particles, model, yield) ==
    [created_at |-> created_at,
     spawn_frequency |-> spawn_frequency,
     max_particles |-> max_particles,
     model |-> model,
     yield |-> yield]

\* the particle of SpawnChoices with this kind and duration
Yield(kind, duration) ==
    CHOOSE c \in SpawnChoices : c.kind = kind /\ c.duration = duration

\* Scene::default(): one spawner
default_scene ==
    [name |-> "default scene",
     spawners |-> << ParticleSpawnerInfo(0, 1000, 500000, "solid", Yield("solid", 3)) >>]

\* hollow_box_scene(): three arrow spawners and the box, whose
\* spawn_frequency is 0
hollow_box_scene ==
    [name |-> "hollow_box",
     spawners |-> << ParticleSpawnerInfo(0, 1300, 200000, "solid", Yield("solid", 3)),
                     ParticleSpawnerInfo(0, 1200, 200000, "solid", Yield("solid", 2)),
                     ParticleSpawnerInfo(0, 1100, 200000, "solid", Yield("solid", 0)),
                     ParticleSpawnerInfo(0, 0, 75000, "solid", Yield("solid", 2)) >>]

\* the scenes of the ComboBox of handle_inputs
Scenes == {default_scene, hollow_box_scene}

SceneNamed(name) == CHOOSE s \in Scenes : s.name = name

\* Scene::actualize: every spawner of the scene is spawned with
\* steel_properties()
Scene_actualize(s) == s.spawners

\* create_initial_spawners: a steel spawner and a water spawner
InitialSpawners ==
    << ParticleSpawnerInfo(0, 1300, 200000, "solid", Yield("solid", 3)),
       ParticleSpawnerInfo(0, 25000, 75000, "fluid", Yield("fluid", 1)) >>

\* the spawner of a released left drag (steel) or of a right click (water):
\* its bundle has no model component
InputSpawner(tick, yield) == ParticleSpawnerInfo(tick, 0, 500000, "none", yield)

\* a scene that is reset only when it is asked for or on the first tick
reset_on_request(tick, name, last_frame_scene, reset_asked) ==
    tick = 0 \/ reset_asked

\* the condition of update_scene: the first tick, a changed scene, or a
\* requested reset
scene_is_reset(tick, name, last_frame_scene, reset_asked) ==
    \/ tick = 0
    \/ name # last_frame_scene
    \/ reset_asked

\* a % f of a usize given by its signed residue; 2^64 modulo f is 2^16
\* modulo f squared twice
usize_rem(a, f) ==
    LET h == 65536 % f
        w == (h * h) % f
    IN  IF a >= 0 THEN a % f ELSE (((w * w) % f) + (a % f)) % f

\* (current_tick - created_at) % spawn_frequency: the subtraction underflows
\* in a debug build, the remainder by 0 panics in every build
firing_condition_panics(b, tick, s) ==
    \/ b = "debug" /\ tick < s.created_at
    \/ s.spawn_frequency = 0

\* the condition under which tick_spawners calls spawn_particles
spawner_fires(tick, count, s) ==
    /\ usize_rem(tick - s.created_at, s.spawn_frequency) = 0
    /\ count < s.max_particles

\* the particles that the firing spawners queue, in the order of the spawners
RECURSIVE spawn_particles(_, _, _, _)
spawn_particles(firing, grid_width, tick, next_id) ==
    IF firing = <<>> THEN <<>>
    ELSE LET s == Head(firing)
         IN  IF SpawnAllowed(grid_width, s.yield.at)
             THEN <<new_particle(next_id, s.model, s.yield.at, s.yield.mass, tick,
                                 s.yield.vel, s.yield.duration)>>
                  \o spawn_particles(Tail(firing), grid_width, tick, next_id + 1)
             ELSE spawn_particles(Tail(firing), grid_width, tick, next_id)

\* the Scene resource at startup, and the empty Local<String>
FirstScene == [current |-> "default scene", last_frame_scene |-> ""]

NoSpawners == [alive |-> <<>>, spawn |-> <<>>, despawn |-> {}]

\* ------------------------------------------------------------- the frame
VARIABLES
    call,       \* the function called on its own, its argument and its result
    build,      \* "debug" or "release": whether usize overflow panics or wraps
    grid,       \* the Grid resource: cells, width
    world,      \* the WorldState resource: dt, gravity, gravity_enabled, current_tick
    need_to_reset, \* the NeedToReset resource
    particles,  \* the particle entities, in query order
    commands,   \* the Commands queued in this frame: spawns and despawns
    spawned,    \* entities created so far (the next entity id)
    pc,         \* the system that runs now
    done,       \* the particles whose closure of the current parallel system ran
    scene,      \* the Scene resource (by name) and the Local of update_scene
    spawners    \* the spawner entities in query order, and their queued commands

vars == <<call, build, grid, world, need_to_reset, particles, commands, spawned, pc, done,
          scene, spawners>>

NoCommands == [spawn |-> <<>>, despawn |-> {}]

\* no function has been called on its own
NoCall == [op |-> "none", arg |-> <<>>, result |-> <<>>]

Init ==
    /\ call = NoCall
    /\ build \in Builds
    /\ grid = Grid_new(GridWidth)
    /\ world = WorldState_new(TEST_DT, TEST_GRAVITY, TRUE)
    /\ need_to_reset = FALSE
    /\ particles = <<>>
    /\ commands = NoCommands
    /\ spawned = 0
    /\ pc = "update_scene"
    /\ done = {}
    /\ scene = FirstScene
    /\ spawners = NoSpawners

\* the systems of a frame, in the order the labels of main() chain them with
\* .before(); the scatter of update_cells is followed by its apply step
NextSystem(system) ==
    CASE system = "update_scene" -> "handle_inputs"
      [] system = "handle_inputs" -> "tick_spawners"
      [] system = "tick_spawners" -> "reset_grid"
      [] system = "reset_grid" -> "update_cells"
      [] system = "update_cells" -> "apply_update_cell_computations"
      [] system = "apply_update_cell_computations" -> "p2g"
      [] system = "p2g" -> "update_grid"
      [] system = "update_grid" -> "g2p"
      [] system = "g2p" -> "update_deformation_gradients"
      [] system = "update_deformation_gradients" -> "delete_old_entities"
      [] system = "delete_old_entities" -> "apply_commands"
      [] system = "apply_commands" -> "update_scene"

ParallelSystems == {"update_cells", "p2g", "g2p", "update_deformation_gradients"}

Everyone == 1 .. Len(particles)
Solids == {k \in Everyone : particles[k].has_solid}
Fluids == {k \in Everyone : particles[k].has_fluid}

\* the particles the queries of a parallel system match
Members(system) ==
    CASE system = "update_cells" -> Everyone
      [] system = "p2g" -> Solids \cup Fluids
      [] system = "g2p" -> Everyone
      [] system = "update_deformation_gradients" -> Solids

\* a scheduler without the barrier: a system may finish with closures pending
NoBarrier(d, members) == TRUE

\* par_for_each_mut returns when the closure has run for every particle
StageComplete(d, members) == members \subseteq d

\* a parallel system has finished: the system that it is .before() starts
system_finished ==
    /\ pc \in ParallelSystems
    /\ StageComplete(done, Members(pc))
    /\ pc' = NextSystem(pc)
    /\ done' = {}
    /\ UNCHANGED <<call, scene, spawners, build, need_to_reset, grid, world, particles, commands, spawned>>

\* a frame starts: on the first tick, after a change of scene and after a
\* reset request every particle and every spawner is despawned and the
\* spawners of the current scene are spawned; Scene::actualize is handed a
\* copy of the WorldState, so the resource keeps its dt, gravity and
\* current_tick; the name of the scene is remembered in every pass
update_scene ==
    /\ pc = "update_scene"
    /\ world.current_tick < MaxTick
    /\ IF scene_is_reset(world.current_tick, scene.current, scene.last_frame_scene,
                         need_to_reset)
       THEN /\ commands' = [commands EXCEPT !.despawn =
                                @ \cup {particles[k].id : k \in 1 .. Len(particles)}]
            /\ spawners' = [spawners EXCEPT
                                !.despawn = @ \cup {spawners.alive[i] :
                                                        i \in 1 .. Len(spawners.alive)},
                                !.spawn = @ \o Scene_actualize(SceneNamed(scene.current))]
            /\ need_to_reset' = FALSE
       ELSE UNCHANGED <<commands, spawners, need_to_reset>>
    /\ scene' = [scene EXCEPT !.last_frame_scene = scene.current]
    /\ pc' = NextSystem(pc)
    /\ UNCHANGED <<call, build, grid, world, particles, spawned, done>>

\* the R key asks for a reset, the G key toggles gravity, or no key is pressed
handle_inputs ==
    /\ pc = "handle_inputs"
    /\ \/ UNCHANGED <<world, need_to_reset>>
       \/ /\ need_to_reset' = TRUE
          /\ UNCHANGED world
       \/ /\ world' = toggle_gravity(world)
          /\ UNCHANGED need_to_reset
    /\ pc' = NextSystem(pc)
    /\ UNCHANGED <<call, scene, spawners, build, grid, particles, commands, spawned, done>>

\* a spawner fires for one particle, or none does
tick_spawners ==
    /\ pc = "tick_spawners"
    /\ \/ /\ UNCHANGED <<commands, spawned>>
          /\ pc' = NextSystem(pc)
       \/ /\ spawned < MaxParticles
          /\ \E c \in SpawnChoices :
                IF SpawnPanics(build, grid.width)
                THEN /\ pc' = "panicked"
                     /\ UNCHANGED <<commands, spawned>>
                ELSE IF SpawnAllowed(grid.width, c.at)
                THEN /\ commands' = [commands EXCEPT !.spawn =
                            Append(@, new_particle(spawned, c.kind, c.at, c.mass,
                                                   world.current_tick, c.vel,
                                                   c.duration))]
                     /\ spawned' = spawned + 1
                     /\ pc' = NextSystem(pc)
                ELSE /\ UNCHANGED <<commands, spawned>>
                     /\ pc' = NextSystem(pc)
    /\ UNCHANGED <<call, scene, spawners, build, need_to_reset, grid, world, particles, done>>

reset_grid ==
    /\ pc = "reset_grid"
    /\ grid' = Grid_reset(grid)
    /\ pc' = NextSystem(pc)
    /\ UNCHANGED <<call, scene, spawners, build, need_to_reset, world, particles, commands, spawned, done>>

\* a scatter that adds its contributions to the shared cells itself
update_cells_writing_grid(k) ==
    /\ pc = "update_cells"
    /\ k \in Everyone \ done
    /\ ~StencilPanics(build, grid, particles[k].position)
    /\ ~StencilOutOfBounds(grid, particles[k].position)
    /\ particles' = [particles EXCEPT ![k].mmc =
                        update_cells_particle(grid, particles[k])]
    /\ grid' = apply_update_cell_computations(grid, <<particles'[k]>>)
    /\ done' = done \cup {k}
    /\ UNCHANGED <<call, scene, spawners, build, need_to_reset, world, commands, spawned, pc>>

\* one closure of the par_for_each_mut of update_cells
update_cells(k) ==
    /\ pc = "update_cells"
    /\ k \in Everyone \ done
    /\ IF StencilPanics(build, grid, particles[k].position)
       THEN /\ pc' = "panicked"
            /\ UNCHANGED <<particles, done>>
       ELSE /\ particles' = [particles EXCEPT ![k].mmc =
                                update_cells_particle(grid, particles[k])]
            /\ done' = done \cup {k}
            /\ pc' = pc
    /\ UNCHANGED <<call, scene, spawners, build, need_to_reset, grid, world, commands, spawned>>

apply_update_cell_computations_system ==
    /\ pc = "apply_update_cell_computations"
    /\ IF ChangesOutOfBounds(grid, particles)
       THEN /\ pc' = "panicked"
            /\ UNCHANGED grid
       ELSE /\ grid' = apply_update_cell_computations(grid, particles)
            /\ pc' = NextSystem(pc)
    /\ UNCHANGED <<call, scene, spawners, build, need_to_reset, world, particles, commands, spawned, done>>

\* one closure of the par_for_each_mut of particles_to_grid_solids
particles_to_grid_solids(k) ==
    /\ pc = "p2g"
    /\ k \in Solids \ done
    /\ IF \/ StencilPanics(build, grid, particles[k].position)
          \/ StencilOutOfBounds(grid, particles[k].position)
       THEN /\ pc' = "panicked"
            /\ UNCHANGED <<particles, done>>
       ELSE /\ particles' = [particles EXCEPT ![k].mmc =
                    particles_to_grid_solids_particle(grid, world, particles[k])]
            /\ done' = done \cup {k}
            /\ pc' = pc
    /\ UNCHANGED <<call, scene, spawners, build, need_to_reset, grid, world, commands, spawned>>

\* one closure of the par_for_each_mut of particles_to_grid_fluids
particles_to_grid_fluids(k) ==
    /\ pc = "p2g"
    /\ k \in Fluids \ done
    /\ IF \/ StencilPanics(build, grid, particles[k].position)
          \/ StencilOutOfBounds(grid, particles[k].position)
       THEN /\ pc' = "panicked"
            /\ UNCHANGED <<particles, done>>
       ELSE /\ particles' = [particles EXCEPT ![k].mmc =
                    particles_to_grid_fluids_particle(grid, world, particles[k])]
            /\ done' = done \cup {k}
            /\ pc' = pc
    /\ UNCHANGED <<call, scene, spawners, build, need_to_reset, grid, world, commands, spawned>>

\* the scratch buffers are added to the grid, the tick advances, Grid::update
update_grid ==
    /\ pc = "update_grid"
    /\ IF ChangesOutOfBounds(grid, particles)
       THEN /\ pc' = "panicked"
            /\ UNCHANGED <<grid, world>>
       ELSE /\ world' = WorldState_update(world)
            /\ IF Grid_update_panics(build, apply_force_computations(grid, particles))
               THEN /\ pc' = "panicked"
                    /\ grid' = apply_force_computations(grid, particles)
               ELSE /\ grid' = Grid_update(apply_force_computations(grid, particles),
                                           world'.dt, EffectiveGravity(world'))
                    /\ pc' = NextSystem(pc)
    /\ UNCHANGED <<call, scene, spawners, build, need_to_reset, particles, commands, spawned, done>>

\* one closure of the par_for_each_mut of grid_to_particles
grid_to_particles(k) ==
    /\ pc = "g2p"
    /\ k \in Everyone \ done
    /\ IF \/ StencilPanics(build, grid, particles[k].position)
          \/ width_minus_2_panics(build, grid)
          \/ StencilOutOfBounds(grid, particles[k].position)
       THEN /\ pc' = "panicked"
            /\ UNCHANGED <<particles, done>>
       ELSE /\ particles' = [particles EXCEPT ![k] =
                    grid_to_particles_particle(grid, world, particles[k])]
            /\ done' = done \cup {k}
            /\ pc' = pc
    /\ UNCHANGED <<call, scene, spawners, build, need_to_reset, grid, world, commands, spawned>>

\* one closure of the par_for_each_mut of update_deformation_gradients
update_deformation_gradients(k) ==
    /\ pc = "update_deformation_gradients"
    /\ k \in Solids \ done
    /\ particles' = [particles EXCEPT ![k] =
            update_deformation_gradients_particle(world, particles[k])]
    /\ done' = done \cup {k}
    /\ UNCHANGED <<call, scene, spawners, build, need_to_reset, grid, world, commands, spawned, pc>>

\* the entities whose despawn delete_old_entities queues
OldEntities == {particles[k].id : k \in {i \in Everyone : IsOld(world, particles[i])}}

delete_old_entities ==
    /\ pc = "delete_old_entities"
    /\ commands' = [commands EXCEPT !.despawn = @ \cup OldEntities]
    /\ pc' = NextSystem(pc)
    /\ UNCHANGED <<call, scene, spawners, build, need_to_reset, grid, world, particles, spawned, done>>

RECURSIVE Keep(_, _)
Keep(ps, gone) ==
    IF ps = <<>> THEN <<>>
    ELSE IF Head(ps).id \in gone THEN Keep(Tail(ps), gone)
    ELSE <<Head(ps)>> \o Keep(Tail(ps), gone)

\* the end of the stage: the queued commands are applied to the world
apply_commands ==
    /\ pc = "apply_commands"
    /\ particles' = Keep(particles \o commands.spawn, commands.despawn)
    /\ commands' = NoCommands
    /\ spawners' = [alive |-> SelectSeq(spawners.alive,
                                        LAMBDA s : s \notin spawners.despawn)
                               \o spawners.spawn,
                    spawn |-> <<>>,
                    despawn |-> {}]
    /\ pc' = NextSystem(pc)
    /\ UNCHANGED <<call, scene, build, need_to_reset, grid, world, spawned, done>>

Next ==
    \/ update_scene
    \/ handle_inputs
    \/ tick_spawners
    \/ reset_grid
    \/ \E k \in Everyone : update_cells(k)
    \/ apply_update_cell_computations_system
    \/ \E k \in Everyone : particles_to_grid_solids(k)
    \/ \E k \in Everyone : particles_to_grid_fluids(k)
    \/ update_grid
    \/ \E k \in Everyone : grid_to_particles(k)
    \/ \E k \in Everyone : update_deformation_gradients(k)
    \/ delete_old_entities
    \/ apply_commands
    \/ system_finished

Spec == Init /\ [][Next]_vars

\* ------------------------------------------------------------- properties
RECURSIVE SumCellMass(_, _)
SumCellMass(cells, i) ==
    IF i \notin DOMAIN cells THEN 0 ELSE cells[i].mass + SumCellMass(cells, i + 1)

RECURSIVE SumParticleMass(_, _)
SumParticleMass(ps, k) ==
    IF k > Len(ps) THEN 0 ELSE ps[k].mass + SumParticleMass(ps, k + 1)

TotalGridMass == SumCellMass(grid.cells, 0)
TotalParticleMass == SumParticleMass(particles, 1)

\* the mass/velocity scatter has been applied and nothing else has touched the
\* grid since the reset
AfterMassApply == pc \in {"p2g", "update_grid"}

\* rounding budget of one particle's scatter, in units of 1 / ONE: the two
\* weight vectors, the 9 products of weights and the 9 products with the mass
MassEpsilon == 20

\* C1: after reset, update_cells and apply_update_cell_computations the sum of
\* the mass of all cells equals the sum of the masses of the particles, up to
\* the rounding of the arithmetic
C1_MassConserved ==
    AfterMassApply =>
        Abs(TotalGridMass - TotalParticleMass) <= MassEpsilon * Len(particles)

\* two particles with mass have been scattered and the sums agree
C1_Witness ==
    /\ AfterMassApply
    /\ Len(particles) = 2
    /\ \A k \in Everyone : particles[k].mass > 0
    /\ TotalGridMass = TotalParticleMass

\* particle k as the closure of the running scatter system leaves it
ScatterResult(k) ==
    IF pc = "update_cells" THEN update_cells_particle(grid, particles[k])
    ELSE IF particles[k].has_solid
         THEN particles_to_grid_solids_particle(grid, world, particles[k])
         ELSE particles_to_grid_fluids_particle(grid, world, particles[k])

InScatter == pc \in {"update_cells", "p2g"}

\* C2: a closure of a scatter system changes the scratch buffer of its own
\* particle and nothing else, the grid included; so whatever the order of the
\* closures, every finished particle holds the contributions computed from
\* the grid as the stage found it
C2_ScatterPrivate ==
    /\ [][InScatter /\ pc' = pc /\ done' # done =>
            /\ grid' = grid
            /\ \E k \in done' \ done :
                  /\ done' = done \cup {k}
                  /\ particles' = [particles EXCEPT ![k].mmc = particles'[k].mmc]]_vars
    /\ [](InScatter => \A k \in done : particles[k].mmc = ScatterResult(k))

\* both orders of two closures have been taken: one particle has finished the
\* scatter and the other has not
C2_Witness ==
    /\ pc = "p2g"
    /\ Len(particles) = 2
    /\ done = {2}
    /\ \E s \in Slots : particles[2].mmc[s][3] # VZERO

\* the systems of a tick, in the order of the pipeline
StageOrder ==
    <<"reset_grid", "update_cells", "apply_update_cell_computations", "p2g",
      "update_grid", "g2p", "update_deformation_gradients", "delete_old_entities">>

StageIndex(system) == CHOOSE i \in 1 .. Len(StageOrder) : StageOrder[i] = system

AllCellsZero == \A i \in DOMAIN grid.cells : grid.cells[i] = ZeroCell

\* the mass field of the grid when the contributions of every particle to it
\* have been applied to the empty grid
RescatteredParticles ==
    [k \in 1 .. Len(particles) |->
        [particles[k] EXCEPT !.mmc = update_cells_particle(grid, particles[k])]]

FullMass ==
    apply_update_cell_computations(Grid_reset(grid), RescatteredParticles).cells

C4_TickCounter ==
    /\ world.current_tick = 0
    /\ [][/\ world'.current_tick # world.current_tick =>
               pc = "update_grid" /\ world'.current_tick = world.current_tick + 1
          /\ pc = "update_grid" /\ pc' = "g2p" =>
               world'.current_tick = world.current_tick + 1]_vars

\* the third tick has been counted after a gravity toggle and a scene reset
\* request
C4_Witness ==
    /\ world.current_tick = 3
    /\ pc = "g2p"
    /\ ~world.gravity_enabled
    /\ need_to_reset

\* C5: delete_old_entities queues the despawn of exactly the entities with
\* current_tick > created_at + max_age and changes no entity; an entity is
\* gone at the end of the tick only if its despawn was queued
C5_Expiry ==
    [][/\ pc = "delete_old_entities" =>
            /\ commands'.despawn = commands.despawn \cup
                  {particles[k].id : k \in {i \in Everyone :
                      world.current_tick >
                          particles[i].created_at + particles[i].max_age}}
            /\ particles' = particles
       /\ pc = "apply_commands" =>
            \A k \in Everyone :
                (particles[k].id \in commands.despawn) <=>
                    (\A j \in 1 .. Len(particles') : particles'[j].id # particles[k].id)]_vars

\* the expiry has run at current_tick = created_at + max_age for one particle,
\* which stays, and at created_at + max_age + 1 for another, which goes
C5_Witness ==
    /\ pc = "apply_commands"
    /\ \E k \in Everyone :
          /\ world.current_tick = particles[k].created_at + particles[k].max_age
          /\ particles[k].id \notin commands.despawn
    /\ \E k \in Everyone :
          /\ world.current_tick = particles[k].created_at + particles[k].max_age + 1
          /\ particles[k].id \in commands.despawn

InDomain(a) == FGe(a, ONE) /\ FLe(a, F(grid.width - 2))

\* C6: the position of every particle lies in [1, width - 2] on both axes
\* after grid_to_particles, and so in every state
C6_PositionInDomain ==
    \A k \in Everyone :
        InDomain(particles[k].position[1]) /\ InDomain(particles[k].position[2])

\* the gather has moved a particle by more than three cells towards the
\* lower edge and left it on the edge of the domain
C6_Witness ==
    /\ pc = "update_deformation_gradients"
    /\ \E k \in Everyone :
          /\ particles[k].position[2] = ONE
          /\ FLt(FMul(particles[k].velocity[2], world.dt), FNeg(F(3)))

\* ------------------------------------------------------------- one stage alone
\* A stage run on a world set up by hand, as the tests of the stages do: one
\* particle placed anywhere on the grid, the grid empty or with mass put into
\* the cell at the centre, the pipeline entered at a scatter system.

Centre == <<F(4) + HALF, F(4) + HALF>>

\* a deformation gradient that has collapsed along the x axis
CollapsedGradient == <<(<<0, 0>>), (<<0, ONE>>)>>

StageParticles ==
    { new_particle(0, "fluid", Centre, LIQUID_PARTICLE_MASS, 0, <<0, FNeg(ONE)>>, 2),
      new_particle(0, "solid", Centre, STEEL_PARTICLE_MASS, 0, <<0, FNeg(ONE)>>, 2),
      [new_particle(0, "solid", Centre, STEEL_PARTICLE_MASS, 0, <<0, FNeg(ONE)>>, 2)
          EXCEPT !.solid.deformation_gradient = CollapsedGradient],
      new_particle(0, "fluid", <<F(4) + HALF, HALF>>, LIQUID_PARTICLE_MASS, 0, VZERO, 2),
      new_particle(0, "fluid", <<F(4) + HALF, F(GridWidth) - HALF>>,
                   LIQUID_PARTICLE_MASS, 0, VZERO, 2),
      new_particle(0, "fluid", <<HALF, F(4) + HALF>>, LIQUID_PARTICLE_MASS, 0, VZERO, 2),
      new_particle(0, "fluid", <<F(GridWidth) - HALF, F(4) + HALF>>,
                   LIQUID_PARTICLE_MASS, 0, VZERO, 2) }

\* the empty grid, and the grid of test_particles_to_grid_iteration: mass 0.25
\* put by hand into the cell of the particle
StageGrids ==
    { Grid_new(GridWidth),
      [Grid_new(GridWidth) EXCEPT
          !.cells[index_at(Grid_new(GridWidth), 4, 4)].mass = ONE \div 4] }

InitStage ==
    /\ call = NoCall
    /\ build \in Builds
    /\ grid \in StageGrids
    /\ world = [WorldState_new(TEST_DT, TEST_GRAVITY, TRUE)
                   EXCEPT !.current_tick = MaxTick - 2]
    /\ need_to_reset = FALSE
    /\ \E p \in StageParticles : particles = <<p>>
    /\ commands = NoCommands
    /\ spawned = 1
    /\ pc \in {"update_cells", "p2g"}
    /\ done = {}
    /\ scene = FirstScene
    /\ spawners = NoSpawners

SpecStage == InitStage /\ [][Next]_vars

OutOfRange(cp) ==
    \/ cp[1] < 0 \/ cp[1] >= grid.width
    \/ cp[2] < 0 \/ cp[2] >= grid.width

ClampCoordinate(c) == IF c < 0 THEN 0 ELSE IF c >= grid.width THEN grid.width - 1 ELSE c

\* C7: a neighbour coordinate below 0 or >= width never becomes the valid
\* index of a different cell: the index a closure computed for it is out of
\* bounds (the access is rejected) or is the index of the clamped coordinate
C7_NoSilentWraparound ==
    \A k \in Everyone :
        pc = "update_cells" /\ k \in done =>
            \A s \in Slots :
                LET cp == CellPos(particles[k].position, s)
                    idx == particles[k].mmc[s][1]
                IN  OutOfRange(cp) =>
                        \/ ~InBounds(grid, idx)
                        \/ idx = ClampCoordinate(cp[1]) * grid.width
                                     + ClampCoordinate(cp[2])

\* the local density of particle k, as the force scatter computes it
DensityOf(k) == Density(grid, particles[k].position)

SlotsZero(k) == \A s \in Slots : particles[k].mmc[s][3] = VZERO

\* C8: a particle whose local density is zero leaves a zero momentum delta in
\* each of its 9 slots after the force scatter
C8_ZeroDensityGuarded ==
    \A k \in Everyone :
        pc = "p2g" /\ k \in done /\ DensityOf(k) = 0 => SlotsZero(k)

Singular(k) ==
    particles[k].has_solid /\ determinant(particles[k].solid.deformation_gradient) = 0

GridFinite ==
    \A i \in DOMAIN grid.cells :
        VFinite(grid.cells[i].velocity) /\ IsFinite(grid.cells[i].mass)

\* C9: a solid particle with det(F) = 0 contributes no stress: its 9 slots
\* hold zero after the force scatter, and the grid that update_grid builds
\* from the slots holds finite values only
C9_SingularGuarded ==
    /\ \A k \in Everyone : pc = "p2g" /\ k \in done /\ Singular(k) => SlotsZero(k)
    /\ (pc = "g2p" /\ \E k \in Everyone : Singular(k)) => GridFinite

\* ------------------------------------------------------------- construction
\* Grid::new and WorldState::new with any width and any dt, then the pipeline

ConstructionChoices ==
    { [width |-> 0, dt |-> TEST_DT],
      [width |-> 2, dt |-> TEST_DT],
      [width |-> GridWidth, dt |-> 0],
      [width |-> GridWidth, dt |-> TEST_DT] }

InitConstruct ==
    /\ call = NoCall
    /\ build \in Builds
    /\ \E c \in ConstructionChoices :
          /\ grid = Grid_new(c.width)
          /\ world = WorldState_new(c.dt, TEST_GRAVITY, TRUE)
    /\ need_to_reset = FALSE
    /\ particles = <<>>
    /\ commands = NoCommands
    /\ spawned = 0
    /\ pc = "update_scene"
    /\ done = {}
    /\ scene = FirstScene
    /\ spawners = NoSpawners

SpecConstruct == InitConstruct /\ [][Next]_vars

\* C10: a grid of width 0, or too narrow for the boundary rule of
\* Grid::update, and a world with dt = 0 are rejected at construction: no tick
\* is ever counted with them
C10_ConfigRejected ==
    world.current_tick > 0 => grid.width >= 3 /\ FGt(world.dt, 0)

\* ------------------------------------------------------------- Grid::update
CellX(i) == i \div grid.width
CellY(i) == i % grid.width

\* Grid::update has just run: the grid holds velocities until the next reset
AfterGridUpdate == pc = "g2p"

\* the velocity of a cell with mass before the wall rule: momentum / mass,
\* then dt * gravity added to y
BeforeWallRule(cell, dt, gravity) ==
    <<FMul(cell.velocity[1], FDiv(ONE, cell.mass)),
      FAdd(FMul(cell.velocity[2], FDiv(ONE, cell.mass)), FMul(dt, gravity))>>

\* component a does not point towards the low edge / the high edge
NotTowardsLow(a) == ~FLt(a, 0)
NotTowardsHigh(a) == ~FGt(a, 0)

Sixteenth == ONE \div 16

CellDiffs == {<<x * Sixteenth, y * Sixteenth>> : x \in (0 - 8) .. 8, y \in (0 - 8) .. 8}

InitWeights ==
    /\ Init
    /\ build = "debug"

call_quadratic_interpolation_weights ==
    /\ \E d \in CellDiffs :
          call' = [op |-> "quadratic_interpolation_weights", arg |-> d,
                   result |-> quadratic_interpolation_weights(d)]
    /\ UNCHANGED <<build, scene, spawners, grid, world, need_to_reset, particles, commands,
                   spawned, pc, done>>

NextWeights == call_quadratic_interpolation_weights

SpecWeights == InitWeights /\ [][NextWeights]_vars

WeightsCalled == call.op = "quadratic_interpolation_weights"

\* the sum of the 9 products w[gx].x * w[gy].y, in the order of the loops
RECURSIVE SumOfProducts(_, _)
SumOfProducts(weights, k) ==
    IF k > 9 THEN 0
    ELSE SlotWeight(weights, LoopOrder[k]) + SumOfProducts(weights, k + 1)

\* rounding budget of the 9 products, in units of 1 / ONE
WeightEpsilon == 5

\* C12: for every cell_diff d of [-0.5, 0.5]^2 the weights of each axis are
\* 0.5 * (0.5 - d)^2, 0.75 - d^2 and 0.5 * (0.5 + d)^2, none is negative,
\* the three of an axis sum to 1 and the 9 products sum to 1 up to the
\* rounding of the products; at d = -0.5 they are 0.5, 0.5 and 0
C12_WeightsPartition ==
    WeightsCalled =>
        LET d == call.arg
            w == call.result
        IN  /\ \A axis \in 1 .. 2 :
                  /\ 2 * ONE * w[1][axis] = (HALF - d[axis]) * (HALF - d[axis])
                  /\ ONE * w[2][axis] = ONE * THREE_QUARTERS - d[axis] * d[axis]
                  /\ 2 * ONE * w[3][axis] = (HALF + d[axis]) * (HALF + d[axis])
                  /\ w[1][axis] >= 0 /\ w[2][axis] >= 0 /\ w[3][axis] >= 0
                  /\ w[1][axis] + w[2][axis] + w[3][axis] = ONE
                  /\ d[axis] = 0 - HALF =>
                        w[1][axis] = HALF /\ w[2][axis] = HALF /\ w[3][axis] = 0
            /\ Abs(SumOfProducts(w, 1) - ONE) <= WeightEpsilon

\* the weights have been computed at the corner d = (-0.5, -0.5)
C12_Witness ==
    /\ WeightsCalled
    /\ call.arg = <<0 - HALF, 0 - HALF>>
    /\ call.result = <<(<<HALF, HALF>>), (<<HALF, HALF>>), (<<0, 0>>)>>

\* ------------------------------------------------------------- the grid alone
\* Grid::reset, Grid::update and toggle_gravity called on their own, as
\* test_reset_grid and test_update_grid do: cells are given mass and velocity
\* by hand, gravity is toggled, then update and reset are called

\* the cells the hand puts values into: a cell of the lower wall, a cell of
\* the left wall, a cell of the right wall and a cell in the middle
HandCells ==
    { index_at(Grid_new(GridWidth), 3, 0),
      index_at(Grid_new(GridWidth), 1, 4),
      index_at(Grid_new(GridWidth), GridWidth - 1, 4),
      index_at(Grid_new(GridWidth), 4, 4) }

HandValues ==
    { [velocity |-> <<F(2), FNeg(F(2))>>, mass |-> ONE + HALF],
      [velocity |-> <<FNeg(F(3)), F(1)>>, mass |-> F(3)],
      [velocity |-> <<F(1), FNeg(F(1))>>, mass |-> 0],
      [velocity |-> <<NAN, PINF>>, mass |-> ONE],
      [velocity |-> <<NAN, NINF>>, mass |-> 0] }

InitGrid ==
    /\ Init
    /\ build = "release"

\* gr.cells[i] = Cell { .. }
set_cell ==
    /\ call.op = "none"
    /\ \E i \in HandCells, c \in HandValues :
          /\ grid.cells[i] = ZeroCell
          /\ grid' = [grid EXCEPT !.cells[i] = c]
    /\ UNCHANGED <<call, scene, spawners, build, world, need_to_reset, particles, commands,
                   spawned, pc, done>>

call_toggle_gravity ==
    /\ call.op \in {"none", "toggle_gravity"}
    /\ world' = toggle_gravity(world)
    /\ call' = [op |-> "toggle_gravity", arg |-> world, result |-> world']
    /\ UNCHANGED <<build, scene, spawners, grid, need_to_reset, particles, commands, spawned,
                   pc, done>>

\* grid.update(world.dt, if world.gravity_enabled { world.gravity } else { 0. })
call_Grid_update ==
    /\ call.op \in {"none", "toggle_gravity"}
    /\ grid' = Grid_update(grid, world.dt, EffectiveGravity(world))
    /\ call' = [op |-> "update", arg |-> grid, result |-> grid']
    /\ UNCHANGED <<build, scene, spawners, world, need_to_reset, particles, commands, spawned,
                   pc, done>>

\* gr.reset(), and gr.reset() once more
call_Grid_reset ==
    /\ call.op \in {"none", "update", "reset"}
    /\ grid' = Grid_reset(grid)
    /\ call' = IF call.op = "reset"
               THEN [op |-> "reset_twice", arg |-> call.arg, result |-> grid']
               ELSE [op |-> "reset", arg |-> grid, result |-> grid']
    /\ UNCHANGED <<build, scene, spawners, world, need_to_reset, particles, commands, spawned,
                   pc, done>>

NextGrid ==
    \/ set_cell
    \/ call_toggle_gravity
    \/ call_Grid_update
    \/ call_Grid_reset

SpecGrid == InitGrid /\ [][NextGrid]_vars

HasContents(g) == \E i \in DOMAIN g.cells : g.cells[i] # ZeroCell

\* C13: Grid::reset zeroes the mass and the velocity of every cell whatever
\* they held, keeps width and the number of cells, and a second reset gives
\* the grid the first one gave
C13_ResetIdempotent ==
    call.op \in {"reset", "reset_twice"} =>
        /\ \A i \in DOMAIN call.result.cells : call.result.cells[i] = ZeroCell
        /\ call.result.width = call.arg.width
        /\ DOMAIN call.result.cells = DOMAIN call.arg.cells
        /\ call.result = Grid_reset(call.arg)
        /\ Grid_reset(call.result) = call.result

\* reset has been called twice in a row on a grid that held mass, velocity
\* and a NaN
C13_Witness ==
    /\ call.op = "reset_twice"
    /\ \E i \in DOMAIN call.arg.cells : FGt(call.arg.cells[i].mass, 0)
    /\ \E i \in DOMAIN call.arg.cells : IsNaN(call.arg.cells[i].velocity[1])
    /\ ~HasContents(grid)


GridUpdateCalled == call.op = "update"

\* C18: Grid::update leaves every cell whose mass is 0 as it was, wall cells
\* and cells holding a velocity included, and changes the mass of no cell
C18_MasslessUntouched ==
    GridUpdateCalled =>
        /\ \A i \in DOMAIN call.arg.cells :
              call.arg.cells[i].mass = 0 =>
                  call.result.cells[i] = call.arg.cells[i]
        /\ \A i \in DOMAIN call.arg.cells :
              call.result.cells[i].mass = call.arg.cells[i].mass

\* update ran over a grid with a massless wall cell whose velocity points
\* into the wall, next to a cell with mass that the update did change
C18_Witness ==
    /\ GridUpdateCalled
    /\ \E i \in DOMAIN call.arg.cells :
          /\ call.arg.cells[i].mass = 0
          /\ i % call.arg.width < 2
          /\ FLt(call.arg.cells[i].velocity[2], 0)
          /\ call.result.cells[i] = call.arg.cells[i]
    /\ \E i \in DOMAIN call.arg.cells :
          /\ FGt(call.arg.cells[i].mass, 0)
          /\ call.result.cells[i] # call.arg.cells[i]

Interior(g, i) ==
    /\ i \div g.width >= 2 /\ i \div g.width <= g.width - 3
    /\ i % g.width >= 2 /\ i % g.width <= g.width - 3

\* C19: for an interior cell with mass the grid update sets the velocity to
\* momentum / mass and adds dt * gravity to y exactly when gravity is
\* enabled; toggle_gravity flips gravity_enabled, changes no other field,
\* and two toggles give the world back
C19_GravityToggle ==
    /\ [](GridUpdateCalled =>
            \A i \in DOMAIN call.arg.cells :
                Interior(call.arg, i) /\ FGt(call.arg.cells[i].mass, 0) =>
                    call.result.cells[i].velocity =
                        IF world.gravity_enabled
                        THEN BeforeWallRule(call.arg.cells[i], world.dt, world.gravity)
                        ELSE <<FMul(call.arg.cells[i].velocity[1],
                                    FDiv(ONE, call.arg.cells[i].mass)),
                               FMul(call.arg.cells[i].velocity[2],
                                    FDiv(ONE, call.arg.cells[i].mass))>>)
    /\ [](call.op = "toggle_gravity" =>
            /\ call.result.gravity_enabled = ~call.arg.gravity_enabled
            /\ call.result = [call.arg EXCEPT !.gravity_enabled = call.result.gravity_enabled]
            /\ toggle_gravity(call.result) = call.arg)
    /\ [][call'.op = "toggle_gravity" /\ call.op = "toggle_gravity" =>
            world' = call.arg /\ grid' = grid]_vars

\* gravity was switched off and the update gave an interior cell with mass
\* and downward momentum a velocity without the gravity term
C19_Witness ==
    /\ GridUpdateCalled
    /\ ~world.gravity_enabled
    /\ \E i \in DOMAIN call.arg.cells :
          /\ Interior(call.arg, i)
          /\ FGt(call.arg.cells[i].mass, 0)
          /\ IsFinite(call.result.cells[i].velocity[2])
          /\ call.result.cells[i].velocity #
                 BeforeWallRule(call.arg.cells[i], world.dt, world.gravity)


\* ------------------------------------------------------------- deformation
\* entry (row r, column c) of I + dt * C
StepFactor(C, dt, r, c) == FAdd(IF r = c THEN ONE ELSE 0, FMul(C[c][r], dt))

\* (I + dt * C) * F written out entry by entry, a matrix being its columns
FactorOnTheLeft(C, dt, Fold) ==
    [c \in {1, 2} |->
        [r \in {1, 2} |->
            FAdd(FMul(StepFactor(C, dt, r, 1), Fold[c][1]),
                 FMul(StepFactor(C, dt, r, 2), Fold[c][2]))]]

\* the factors k of the affine matrices k * I
ScaleFactors == {FNeg(F(2)), FNeg(HALF), 0, HALF, ONE, F(3)}

DeformationStep ==
    /\ pc = "update_deformation_gradients"
    /\ pc' = pc
    /\ done' # done

\* C14: the deformation update sets F_new = (I + dt * C) * F_old, the factor
\* on the left; from F_old = I and C = k * I it gives (1 + dt * k) * I; a
\* closure changes the deformation gradient of its solid particle and nothing
\* else, and no fluid particle, position, velocity, mass or affine matrix
\* changes during the stage
C14_DeformationUpdate ==
    /\ [][DeformationStep =>
            \A k \in Everyone :
                IF k \in done' \ done
                THEN /\ particles[k].has_solid
                     /\ particles'[k].solid.deformation_gradient =
                            FactorOnTheLeft(particles[k].affine_momentum, world.dt,
                                            particles[k].solid.deformation_gradient)
                     /\ particles'[k] =
                            [particles[k] EXCEPT !.solid.deformation_gradient =
                                particles'[k].solid.deformation_gradient]
                ELSE particles'[k] = particles[k]]_vars
    /\ [](\A k \in ScaleFactors :
            LET p == [new_particle(0, "solid", <<F(4), F(4)>>, STEEL_PARTICLE_MASS,
                                   0, VZERO, 0)
                        EXCEPT !.affine_momentum = MScale(MIDENTITY, k)]
            IN  /\ p.solid.deformation_gradient = MIDENTITY
                /\ update_deformation_gradients_particle(world, p).solid.deformation_gradient
                       = MScale(MIDENTITY, FAdd(ONE, FMul(world.dt, k))))

\* the stage has updated a solid whose affine matrix is not zero and whose
\* deformation gradient had already left the identity
C14_Witness ==
    /\ pc = "update_deformation_gradients"
    /\ \E k \in done :
          /\ particles[k].has_solid
          /\ particles[k].affine_momentum # MZERO
          /\ \A r \in {1, 2}, c \in {1, 2} :
                IsFinite(particles[k].solid.deformation_gradient[c][r])
          /\ particles[k].solid.deformation_gradient #
                 MAdd(MIDENTITY, MScale(particles[k].affine_momentum, world.dt))


\* ------------------------------------------------------------- mass scatter
InMassScatter == pc \in {"update_cells", "apply_update_cell_computations"}

\* what the mass scatter may not change of particle k
ReadOnlyFields(p) == <<p.position, p.velocity, p.mass, p.affine_momentum>>

\* the weight particle k gives to cell i, if i is one of its 3x3 cells
StencilWeights(k, i) ==
    LET position == particles[k].position
        weights == quadratic_interpolation_weights(CellDiff(position))
        dx == (i \div grid.width) - (position[1] \div ONE)
        dy == (i % grid.width) - (position[2] \div ONE)
    IN  {SlotWeight(weights, s) :
            s \in {t \in Slots : SlotGx(t) = dx + 1 /\ SlotGy(t) = dy + 1}}

\* no particle gives cell i a weight other than 0
Unweighted(i) == \A k \in Everyone : StencilWeights(k, i) \subseteq {0}

\* some particle has cell i in its stencil, with weight 0
InStencil(i) == \E k \in Everyone : StencilWeights(k, i) # {}

MassScatterReadsOnly ==
    [][InMassScatter =>
          /\ Len(particles') = Len(particles)
          /\ \A k \in Everyone :
                ReadOnlyFields(particles'[k]) = ReadOnlyFields(particles[k])]_vars

\* every velocity and affine matrix the mass scatter read was finite
FiniteParticle(p) ==
    /\ VFinite(p.velocity)
    /\ VFinite(p.affine_momentum[1]) /\ VFinite(p.affine_momentum[2])

PICContributions(p) ==
    LET weights == quadratic_interpolation_weights(CellDiff(p.position))
    IN  [s \in Slots |->
            <<CellAtIndex(grid, p.position, s),
              FMul(SlotWeight(weights, s), p.mass),
              VScale(p.velocity, FMul(SlotWeight(weights, s), p.mass))>>]

\* the grid plain PIC leaves after scattering every particle into empty cells
PICGrid ==
    apply_update_cell_computations(Grid_reset(grid),
        [k \in Everyone |-> [particles[k] EXCEPT !.mmc = PICContributions(particles[k])]])

NoAffine(k) == particles[k].affine_momentum = MZERO

\* C16: a particle whose affine matrix is zero scatters velocity * weight *
\* mass to each of its 9 cells, with no term in the cell offset; when every
\* particle is such a particle the grid the gather later reads starts from
\* the grid of plain PIC
C16_PlainPIC ==
    /\ \A k \in Everyone :
          pc = "update_cells" /\ k \in done /\ NoAffine(k) =>
              particles[k].mmc = PICContributions(particles[k])
    /\ (pc = "p2g" /\ \A k \in Everyone : NoAffine(k)) => grid = PICGrid

\* a moving particle without affine matrix has been scattered and applied,
\* and the cells hold momentum
C16_Witness ==
    /\ pc = "p2g"
    /\ Len(particles) >= 1
    /\ \A k \in Everyone : NoAffine(k)
    /\ \E k \in Everyone : particles[k].velocity # VZERO
    /\ \E i \in DOMAIN grid.cells : grid.cells[i].velocity # VZERO
    /\ grid = PICGrid


\* ------------------------------------------------------------- the gather
GatherStep ==
    /\ pc = "g2p"
    /\ pc' = pc
    /\ done' # done

\* the sum of cell velocity * weight over the 9 cells of particle p
Gathered(p) ==
    GatherSum(grid, p.position, quadratic_interpolation_weights(CellDiff(p.position)),
              1, <<VZERO, MZERO>>)[1]

\* the position projected forward by velocity * dt * (0.1 / dt)
Projected(position, velocity) ==
    VAdd(position, VScale(velocity, FMul(world.dt, FDiv(FDiv(ONE, F(10)), world.dt))))

\* C17: after advection and clamping the gather projects the position
\* forward and, where the projected point lies beyond a wall set back 3 cells
\* from an edge, adds a compensating velocity on that axis: the particle
\* leaves the gather with less velocity towards that wall than the sum over
\* its 9 cells gave it
C17_PredictiveBoundary ==
    [][GatherStep =>
          \A k \in done' \ done :
              LET raw == Gathered(particles[k])
                  next == Projected(particles'[k].position, raw)
              IN  \A axis \in {1, 2} :
                      /\ FLt(next[axis], F(3)) =>
                             FGt(particles'[k].velocity[axis], raw[axis])
                      /\ FGt(next[axis], FSub(F(grid.width - 1), F(3))) =>
                             FLt(particles'[k].velocity[axis], raw[axis])]_vars


\* cell velocity * weight of the k-th cell the loops of the gather visit
WeightedVelocity(p, k) ==
    VScale(grid.cells[CellAtIndex(grid, p.position, LoopOrder[k])].velocity,
           SlotWeight(quadratic_interpolation_weights(CellDiff(p.position)),
                      LoopOrder[k]))

\* the sum of cell velocity * weight over the first k cells
RECURSIVE VelocitySum(_, _)
VelocitySum(p, k) ==
    IF k = 0 THEN VZERO ELSE VAdd(VelocitySum(p, k - 1), WeightedVelocity(p, k))

\* the sum of term(weighted velocity, cell_dist) over the first k cells
RECURSIVE TermSum(_, _)
TermSum(p, k) ==
    IF k = 0 THEN MZERO
    ELSE MAdd(TermSum(p, k - 1),
              weighted_velocity_and_cell_dist_to_term(
                  WeightedVelocity(p, k), CellDist(p.position, LoopOrder[k])))

\* velocities and affine matrices a particle might have held before
PriorStates ==
    { <<VZERO, MIDENTITY>>,
      <<(<<F(3), FNeg(F(2))>>), MZERO>>,
      <<(<<NAN, PINF>>), (<<(<<NAN, 0>>), (<<ONE, NINF>>)>>)>> }

GatherOutcome(p) == <<p.velocity, p.affine_momentum, p.position>>

\* C20: the gather computes velocity and affine matrix from the grid alone,
\* velocity = sum of cell velocity * weight over the 9 cells and affine =
\* 4 * sum of the terms; a particle at the same position over the same grid
\* ends with the same velocity, affine matrix and position whatever velocity
\* and affine matrix it held before; the mass of the particle, every other
\* particle and every grid cell are as before
C20_GatherFromGrid ==
    [][GatherStep =>
          /\ grid' = grid
          /\ \A k \in Everyone :
                IF k \in done' \ done
                THEN /\ particles'[k].velocity = VelocitySum(particles[k], 9)
                     /\ particles'[k].affine_momentum =
                            MScale(TermSum(particles[k], 9), F(4))
                     /\ particles'[k] =
                            [particles[k] EXCEPT
                                !.velocity = particles'[k].velocity,
                                !.affine_momentum = particles'[k].affine_momentum,
                                !.position = particles'[k].position]
                     /\ \A prior \in PriorStates :
                            GatherOutcome(grid_to_particles_particle(grid, world,
                                [particles[k] EXCEPT !.velocity = prior[1],
                                                     !.affine_momentum = prior[2]]))
                                = GatherOutcome(particles'[k])
                ELSE particles'[k] = particles[k]]_vars

\* of two particles the first has been gathered: it has a velocity and an
\* affine matrix from cells that hold velocity, and the second has not
C20_Witness ==
    /\ pc = "g2p"
    /\ Len(particles) = 2
    /\ done = {1}
    /\ VFinite(particles[1].velocity)
    /\ particles[1].velocity # VZERO
    /\ particles[1].affine_momentum # MZERO
    /\ particles[2].velocity # VZERO


\* ------------------------------------------------------------- solid stress
\* eq_16_term_0 of a solid whose first Piola-Kirchhoff stress is
\* P = elastic_mu * (F - F_inv_T) + elastic_lambda * log_j * F_inv_T
NeoHookeanTerm(p, log_j) ==
    LET pp == p.solid
        j == determinant(pp.deformation_gradient)
        f_t == transpose(pp.deformation_gradient)
        f_inv_t == inverse(f_t)
        P == MAdd(MScale(MSub(pp.deformation_gradient, f_inv_t), pp.elastic_mu),
                  MScale(f_inv_t, FMul(log_j, pp.elastic_lambda)))
        stress == MScale(mul_mat2(P, f_t), FDiv(ONE, j))
        volume_scaled == FMul(FDiv(p.mass, Density(grid, p.position)), j)
    IN  MScale(stress, FMul(FMul(FNeg(volume_scaled), FOUR), world.dt))

\* the 9 momentum deltas the force scatter derives from a term
ForceDeltas(p, term) ==
    [s \in Slots |->
        mul_vec2(MScale(term, SlotWeight(quadratic_interpolation_weights(
                                             CellDiff(p.position)), s)),
                 CellDist(p.position, s))]

SolidScattered(k) == pc = "p2g" /\ k \in done /\ particles[k].has_solid

\* C21: the stress of a solid uses the natural logarithm of J = det(F): the
\* momentum deltas of every solid the force scatter has finished are those of
\* P = elastic_mu * (F - F_inv_T) + elastic_lambda * ln(J) * F_inv_T
C21_NaturalLog ==
    \A k \in Everyone :
        SolidScattered(k) =>
            \A s \in Slots :
                particles[k].mmc[s][3] =
                    ForceDeltas(particles[k],
                        NeoHookeanTerm(particles[k],
                            Ln(determinant(particles[k].solid.deformation_gradient))))[s]


\* ------------------------------------------------------------- the term alone
\* weighted_velocity_and_cell_dist_to_term called on its own, as the three
\* tests of test.rs do; the values of the tests and a few that are not exact
\* in binary; a weighted velocity may be NaN, a cell distance is finite
Hundredths(n) == (n * ONE) \div 100

WeightedVelocityComponents ==
    {0, ONE, Hundredths(22), Hundredths(77), Hundredths(10), Hundredths(30), NAN}

CellDistComponents ==
    {0, ONE, F(2), FNeg(ONE), Hundredths(70), Hundredths(90), FNeg(HALF)}

InitTerm ==
    /\ Init
    /\ build = "debug"

call_weighted_velocity_and_cell_dist_to_term ==
    /\ call = NoCall
    /\ \E wx \in WeightedVelocityComponents, wy \in WeightedVelocityComponents,
          cx \in CellDistComponents, cy \in CellDistComponents :
          call' = [op |-> "weighted_velocity_and_cell_dist_to_term",
                   arg |-> <<(<<wx, wy>>), (<<cx, cy>>)>>,
                   result |-> weighted_velocity_and_cell_dist_to_term(
                                  <<wx, wy>>, <<cx, cy>>)]
    /\ UNCHANGED <<build, scene, spawners, grid, world, need_to_reset, particles, commands,
                   spawned, pc, done>>

NextTerm == call_weighted_velocity_and_cell_dist_to_term

SpecTerm == InitTerm /\ [][NextTerm]_vars

TermCalled == call.op = "weighted_velocity_and_cell_dist_to_term"

\* the four entries are wv.x*cd.x, wv.y*cd.x (first column) and wv.x*cd.y,
\* wv.y*cd.y (second column)
TermEntries ==
    LET wv == call.arg[1]
        cd == call.arg[2]
    IN  /\ call.result[1] = <<FMul(wv[1], cd[1]), FMul(wv[2], cd[1])>>
        /\ call.result[2] = <<FMul(wv[1], cd[2]), FMul(wv[2], cd[2])>>

\* the product a * b needs no rounding
ExactProduct(a, b) == IsFinite(a) /\ IsFinite(b) /\ (a * b) % ONE = 0

TermEpsilon == 1

\* C22: the term has the four entries wv.x*cd.x, wv.y*cd.x, wv.x*cd.y,
\* wv.y*cd.y; for a finite wv a zero component of cd gives a zero column;
\* the determinant is 0 when the four products are exact and within rounding
\* of 0 for every other finite wv
C22_TermRankOne ==
    TermCalled =>
        LET wv == call.arg[1]
            cd == call.arg[2]
        IN  /\ TermEntries
            /\ VFinite(wv) =>
                  /\ \A c \in {1, 2} : cd[c] = 0 => call.result[c] = VZERO
                  /\ Abs(determinant(call.result)) <= TermEpsilon
                  /\ (\A i \in {1, 2}, c \in {1, 2} : ExactProduct(wv[i], cd[c]))
                         => determinant(call.result) = 0

\* C22 as worded: the determinant is 0 and a zero component of cd gives a
\* zero column for every wv and cd
C22_TermAsWorded ==
    TermCalled =>
        /\ TermEntries
        /\ determinant(call.result) = 0
        /\ \A c \in {1, 2} : call.arg[2][c] = 0 => call.result[c] = VZERO

\* the call of test_weighted_velocity_and_cell_dist_to_term: wv = (0.22,
\* 0.77), cd = (2, -1), no zero entry and determinant 0
C22_Witness ==
    /\ TermCalled
    /\ call.arg = <<(<<Hundredths(22), Hundredths(77)>>), (<<F(2), FNeg(ONE)>>)>>
    /\ \A c \in {1, 2}, r \in {1, 2} : call.result[c][r] # 0
    /\ determinant(call.result) = 0


\* ------------------------------------------------------------- stencil bounds
\* C23: for particles that came through spawn_particle, after any number of
\* ticks, each of the 9 neighbour coordinates of every particle lies in
\* [0, width) on both axes, the index computed for it is that of the cell
\* with these coordinates and lies below width * width, and no stage panics
C23_StencilInGrid ==
    /\ pc # "panicked"
    /\ \A k \in Everyone : \A s \in Slots :
          LET cp == CellPos(particles[k].position, s)
              idx == CellAtIndex(grid, particles[k].position, s)
          IN  /\ ~OutOfRange(cp)
              /\ idx = cp[1] * grid.width + cp[2]
              /\ idx < grid.width * grid.width
              /\ InBounds(grid, idx)

\* a particle the gather has clamped onto the lower edge of the domain has
\* gone through the mass scatter again: its stencil reaches row 0
C23_Witness ==
    /\ pc = "update_cells"
    /\ \E k \in done :
          /\ particles[k].position[2] = ONE
          /\ \E s \in Slots :
                /\ CellPos(particles[k].position, s)[2] = 0
                /\ particles[k].mmc[s][1] % grid.width = 0
                /\ FGt(particles[k].mmc[s][2], 0)


\* ------------------------------------------------------------- applied once
\* the 9 changes of each buffer of bufs, buffer after buffer, slot 0 first
RECURSIVE InOrder(_, _)
InOrder(bufs, k) ==
    IF k > Len(bufs) THEN <<>>
    ELSE <<bufs[k][0], bufs[k][1], bufs[k][2], bufs[k][3], bufs[k][4],
           bufs[k][5], bufs[k][6], bufs[k][7], bufs[k][8]>> \o InOrder(bufs, k + 1)

\* the cells after the first n of the changes were added, once each, to
\* cells; the mass deltas are added only with_mass
RECURSIVE AddedOnce(_, _, _, _)
AddedOnce(cells, changes, n, with_mass) ==
    IF n = 0 THEN cells
    ELSE LET before == AddedOnce(cells, changes, n - 1, with_mass)
             c == changes[n]
         IN  [before EXCEPT ![c[1]] =
                 [velocity |-> VAdd(before[c[1]].velocity, c[3]),
                  mass |-> IF with_mass THEN FAdd(before[c[1]].mass, c[2])
                           ELSE before[c[1]].mass]]

\* the buffers the mass scatter fills, and the buffers the force scatter fills
MassBuffers == [k \in Everyone |-> update_cells_particle(grid, particles[k])]

ForceBuffers ==
    [k \in Everyone |->
        IF particles[k].has_solid
        THEN particles_to_grid_solids_particle(grid, world, particles[k])
        ELSE particles_to_grid_fluids_particle(grid, world, particles[k])]

OneModel(k) == particles[k].has_solid # particles[k].has_fluid

\* C24: within a tick the mass / velocity contribution of every particle with
\* one material model is added to the grid once and its force contribution
\* once: when update_grid starts, the cells hold each mass / velocity
\* contribution once, every scratch buffer has been overwritten by the force
\* scatter (mass delta 0), and update_grid adds each force delta once before
\* Grid::update
C24_AppliedOnce ==
    /\ [](pc = "update_grid" =>
            /\ \A k \in Everyone :
                  /\ OneModel(k)
                  /\ particles[k].mmc = ForceBuffers[k]
                  /\ \A s \in Slots : particles[k].mmc[s][2] = 0
            /\ LET changes == InOrder(MassBuffers, 1)
               IN  grid.cells = AddedOnce(Grid_reset(grid).cells, changes,
                                          Len(changes), TRUE))
    /\ [][pc = "update_grid" /\ pc' = "g2p" =>
            LET changes == InOrder(ForceBuffers, 1)
                applied == [grid EXCEPT !.cells =
                               AddedOnce(grid.cells, changes, Len(changes), FALSE)]
            IN  grid' = Grid_update(applied, world.dt, EffectiveGravity(world))]_vars

\* update_grid is about to apply the force buffers of a solid and a fluid to
\* cells that hold the mass of both
C24_Witness ==
    /\ pc = "update_grid"
    /\ \E k \in Everyone : particles[k].has_solid
    /\ \E k \in Everyone : particles[k].has_fluid
    /\ \A k \in Everyone : \E s \in Slots :
          /\ particles[k].mmc[s][3] # VZERO
          /\ VFinite(particles[k].mmc[s][3])
          /\ FGt(grid.cells[particles[k].mmc[s][1]].mass, 0)


\* ------------------------------------------------------------- density
\* C25: in a full tick the local density the force scatter computes for a
\* particle with mass > 0 is strictly positive and finite, the particle's own
\* deposit being in its stencil, so mass / density is no division by zero
C25_DensityPositive ==
    pc = "p2g" =>
        \A k \in Everyone :
            FGt(particles[k].mass, 0) =>
                /\ FGt(DensityOf(k), 0)
                /\ IsFinite(DensityOf(k))
                /\ IsFinite(FDiv(particles[k].mass, DensityOf(k)))

\* the force scatter has finished a particle that is alone in its stencil:
\* its density is its own deposit, and the momentum deltas are finite
C25_Witness ==
    /\ pc = "p2g"
    /\ Len(particles) = 1
    /\ done = {1}
    /\ FGt(particles[1].mass, 0)
    /\ FGt(DensityOf(1), 0)
    /\ \A s \in Slots : VFinite(particles[1].mmc[s][3])
    /\ \E s \in Slots : particles[1].mmc[s][3] # VZERO


\* ------------------------------------------------------------- grid mass
\* the systems between the end of the mass apply and the next reset
MassSettled == pc \notin {"reset_grid", "update_cells", "apply_update_cell_computations"}

\* C26: the force scatter and its apply step never change grid mass: every
\* slot a force closure has written carries mass delta 0, and from the end
\* of the mass apply until the next reset no step changes the mass of a cell
C26_GridMassConstant ==
    /\ [](pc = "p2g" => \A k \in done : \A s \in Slots : particles[k].mmc[s][2] = 0)
    /\ [][MassSettled =>
            /\ DOMAIN grid'.cells = DOMAIN grid.cells
            /\ \A i \in DOMAIN grid.cells :
                  grid'.cells[i].mass = grid.cells[i].mass]_vars

\* the gather runs over cells whose velocity update_grid has changed and
\* whose mass is what the mass apply left
C26_Witness ==
    /\ pc = "g2p"
    /\ Len(particles) = 2
    /\ TotalGridMass = TotalParticleMass
    /\ \E i \in DOMAIN grid.cells :
          /\ FGt(grid.cells[i].mass, 0)
          /\ grid.cells[i].velocity # VZERO


\* ------------------------------------------------------------- massless cells
\* the cells as update_grid hands them to Grid::update
BeforeGridUpdate == apply_force_computations(grid, particles)

\* every velocity, affine matrix and force delta that went into the cells
\* was finite
AllFinite ==
    \A k \in Everyone :
        /\ FiniteParticle(particles[k])
        /\ \A s \in Slots : VFinite(particles[k].mmc[s][3])

Moduli == {0, ONE, F(18), F(500)}

AtRest(k) ==
    /\ particles[k].has_solid
    /\ particles[k].solid.deformation_gradient = MIDENTITY
    /\ FGt(DensityOf(k), 0)

\* C28: a solid whose deformation gradient is the identity and whose local
\* density is positive contributes no force: the 9 momentum deltas its force
\* closure writes are zero, and the term they are derived from is the zero
\* matrix for any elastic_lambda and elastic_mu
C28_RestNoForce ==
    \A k \in Everyone :
        (pc = "p2g" /\ AtRest(k)) =>
            /\ k \in done => SlotsZero(k)
            /\ \A lambda \in Moduli, mu \in Moduli :
                  LET p == [particles[k] EXCEPT !.solid.elastic_lambda = lambda,
                                                !.solid.elastic_mu = mu]
                  IN  solid_eq_16_term_0(grid, world, p) = MZERO

\* the force scatter has finished a moving solid at rest, whose buffer held
\* the momentum of the mass scatter before
C28_Witness ==
    /\ pc = "p2g"
    /\ \E k \in done :
          /\ AtRest(k)
          /\ particles[k].velocity # VZERO
          /\ FGt(particles[k].solid.elastic_mu, 0)
          /\ FGt(particles[k].solid.elastic_lambda, 0)
          /\ SlotsZero(k)

\* ------------------------------------------------ scenes and spawner entities
\* the frames of a run whose spawners are entities: those of
\* create_initial_spawners at startup, those of the scenes afterwards
MaxInputSpawners == 1

InitScene ==
    /\ call = NoCall
    /\ build \in Builds
    /\ grid = Grid_new(GridWidth)
    /\ world = WorldState_new(TEST_DT, TEST_GRAVITY, TRUE)
    /\ need_to_reset = FALSE
    /\ particles = <<>>
    /\ commands = NoCommands
    /\ spawned = 0
    /\ pc = "update_scene"
    /\ done = {}
    /\ scene = FirstScene
    /\ \E first \in {<<>>, InitialSpawners} :
          spawners = [NoSpawners EXCEPT !.alive = first]

\* one input of a frame: none; the R key, which asks for a reset and returns;
\* the G key; a scene picked in the ComboBox; a released left drag or a right
\* click, which spawn a spawner created at the current tick.  The sliders are
\* left where they are.
handle_inputs_scene ==
    /\ pc = "handle_inputs"
    /\ \/ UNCHANGED <<world, need_to_reset, scene, spawners>>
       \/ /\ need_to_reset' = TRUE
          /\ UNCHANGED <<world, scene, spawners>>
       \/ /\ world' = toggle_gravity(world)
          /\ UNCHANGED <<need_to_reset, scene, spawners>>
       \/ /\ \E s \in Scenes : scene' = [scene EXCEPT !.current = s.name]
          /\ UNCHANGED <<world, need_to_reset, spawners>>
       \/ /\ Len(SelectSeq(spawners.alive \o spawners.spawn,
                          LAMBDA s : s.model = "none")) < MaxInputSpawners
          /\ \E yield \in {Yield("solid", 3), Yield("fluid", 1)} :
                spawners' = [spawners EXCEPT !.spawn =
                                Append(@, InputSpawner(world.current_tick, yield))]
          /\ UNCHANGED <<world, need_to_reset, scene>>
    /\ pc' = NextSystem(pc)
    /\ UNCHANGED <<call, build, grid, particles, commands, spawned, done>>

\* the spawners that the two queries of tick_spawners match: those with a
\* NeoHookeanHyperElasticModel, then those with a NewtonianFluidModel
MatchedSpawners ==
    SelectSeq(spawners.alive, LAMBDA s : s.model = "solid")
    \o SelectSeq(spawners.alive, LAMBDA s : s.model = "fluid")

\* every matched spawner evaluates its firing condition; those that fire
\* queue their particles
tick_spawners_scene ==
    /\ pc = "tick_spawners"
    /\ LET firing == SelectSeq(MatchedSpawners,
                         LAMBDA s : spawner_fires(world.current_tick,
                                                  Len(particles), s))
       IN  IF \/ \E i \in 1 .. Len(MatchedSpawners) :
                    firing_condition_panics(build, world.current_tick,
                                            MatchedSpawners[i])
              \/ firing # <<>> /\ SpawnPanics(build, grid.width)
           THEN /\ pc' = "panicked"
                /\ UNCHANGED <<commands, spawned>>
           ELSE LET new == spawn_particles(firing, grid.width, world.current_tick,
                                           spawned)
                IN  /\ commands' = [commands EXCEPT !.spawn = @ \o new]
                    /\ spawned' = spawned + Len(new)
                    /\ pc' = NextSystem(pc)
    /\ UNCHANGED <<call, scene, spawners, build, need_to_reset, grid, world,
                   particles, done>>

NextScene ==
    \/ update_scene
    \/ handle_inputs_scene
    \/ tick_spawners_scene
    \/ reset_grid
    \/ \E k \in Everyone : update_cells(k)
    \/ apply_update_cell_computations_system
    \/ \E k \in Everyone : particles_to_grid_solids(k)
    \/ \E k \in Everyone : particles_to_grid_fluids(k)
    \/ update_grid
    \/ \E k \in Everyone : grid_to_particles(k)
    \/ \E k \in Everyone : update_deformation_gradients(k)
    \/ delete_old_entities
    \/ apply_commands
    \/ system_finished

SpecScene == InitScene /\ [][NextScene]_vars

\* C29: update_scene resets (every particle and spawner is queued for
\* despawn, the spawners of the current scene are queued for spawn) in the
\* passes where current_tick is 0, or the scene's name differs from the
\* remembered one, or need_to_reset is set, and in no other pass; after every
\* pass need_to_reset is false and the remembered name is the current one
C29_ResetCondition ==
    /\ [][pc = "update_scene" /\ pc' # pc =>
            LET asked == \/ world.current_tick = 0
                         \/ scene.current # scene.last_frame_scene
                         \/ need_to_reset
                every == {spawners.alive[i] : i \in 1 .. Len(spawners.alive)}
                ids == {particles[k].id : k \in 1 .. Len(particles)}
            IN  /\ asked =>
                     /\ commands'.despawn = commands.despawn \cup ids
                     /\ spawners'.despawn = spawners.despawn \cup every
                     /\ spawners'.spawn =
                            spawners.spawn \o SceneNamed(scene.current).spawners
                /\ ~asked => UNCHANGED <<commands, spawners>>
                /\ need_to_reset' = FALSE
                /\ scene'.last_frame_scene = scene'.current
                /\ scene'.current = scene.current]_vars
    /\ [](pc = "handle_inputs" =>
            ~need_to_reset /\ scene.last_frame_scene = scene.current)

\* a pass after the first tick has reset a world with particles in a scene
\* that was picked in the frame before
C29_Witness ==
    /\ pc = "handle_inputs"
    /\ world.current_tick > 0
    /\ scene.current = "hollow_box"
    /\ Len(particles) > 0
    /\ commands.despawn = {particles[k].id : k \in 1 .. Len(particles)}
    /\ spawners.spawn = hollow_box_scene.spawners
    /\ spawners.despawn # {}

\* C30: no spawner that tick_spawners evaluates has spawn_frequency 0 or was
\* created after the current tick, so the firing condition is computed without
\* a remainder by zero and without an underflow
C30_FiringConditionTotal ==
    pc = "tick_spawners" =>
        \A i \in 1 .. Len(MatchedSpawners) :
            /\ MatchedSpawners[i].spawn_frequency # 0
            /\ MatchedSpawners[i].created_at <= world.current_tick

====
